---------------------------- MODULE Spec2Model ----------------------------
(***************************************************************************)
(* A model of day-night-cycle (github.com/brittonhayes/day-night-cycle):   *)
(* the solar calculator of internal/solar.go, the mode decision and plugin *)
(* dispatch of cmd/day-night-cycle/main.go and the launchd schedule of     *)
(* internal/schedule.go.                                                   *)
(*                                                                         *)
(* float64 values are modelled in decimal fixed point, all inside TLC's    *)
(* 32-bit integers:                                                        *)
(*   angles in degrees      1e-5 degree   (suffix 5)                       *)
(*   minutes                1e-5 minute   (suffix 5)                       *)
(*   pure numbers (sin, e)  1e-8          (suffix 8)                       *)
(*   Julian centuries       1e-9 century  (suffix 9)                       *)
(*   Julian Day             a record [int, ms]: whole days and             *)
(*                          milliseconds, jd = int + ms/86400000           *)
(*   instants               seconds since 1970-01-01T00:00:00Z             *)
(***************************************************************************)
EXTENDS Integers, Sequences, FiniteSets, TLC

(***************************************************************************)
(* Fixed-point arithmetic (the float64 operators *, / of solar.go).        *)
(***************************************************************************)
E4 == 10^4
E5 == 10^5
E8 == 10^8

Abs(x) == IF x < 0 THEN -x ELSE x

\* floor(a*b / 1e8) without leaving 32 bits (|a|,|b| below about 4e8, or one
\* of them small enough that the partial products fit).
Mul8(a, b) ==
  LET ah == a \div E4
      al == a % E4
      bh == b \div E4
      bl == b % E4
  IN  ah * bh + ((ah * bl + al * bh + ((al * bl) \div E4)) \div E4)

RECURSIVE DivDigits(_, _, _)
DivDigits(r, b, n) ==
  IF n = 0 THEN 0
  ELSE LET t == r * 10
       IN  (t \div b) * (10^(n - 1)) + DivDigits(t % b, b, n - 1)

\* floor(a * 1e8 / b) for 0 < b <= 2e8 and |a/b| below about 20.
Div8(a, b) == (a \div b) * E8 + DivDigits(a % b, b, 8)

\* int(x) of Go for a float64 held with `unit` units per 1: truncation
\* toward zero.
TruncDiv(a, unit) == IF a >= 0 THEN a \div unit ELSE -((-a) \div unit)

\* Go's integer remainder a % n: the sign follows the dividend.
GoRem(a, n) == a - n * TruncDiv(a, n)

(***************************************************************************)
(* math.Sin, math.Cos, math.Acos, math.Asin on degree arguments: the code  *)
(* always converts with math.Pi * x / 180 first, so the operators take the *)
(* angle in 1e-5 degree and return 1e-8 values.  Sin and Cos reduce the    *)
(* argument to [0, 45] degrees and sum the Taylor series; Acos inverts Cos *)
(* by bisection.                                                           *)
(***************************************************************************)
Deg(n) == n * E5

\* math.Pi * a / 180 for 0 <= a <= 45 degrees, in 1e-8 radian.
Rad8(a5) == 17 * a5 + Mul8(a5, 45329252)

\* 1 - x2*t/k: one step of the nested form of the series
SeriesStep(x2, t, k) == E8 - (Mul8(x2, t) \div k)

SinTerms(x, x2) ==
  Mul8(x, SeriesStep(x2, SeriesStep(x2, SeriesStep(x2,
            SeriesStep(x2, E8, 72), 42), 20), 6))

SinSeries(x) == SinTerms(x, Mul8(x, x))

CosTerms(x2) ==
  SeriesStep(x2, SeriesStep(x2, SeriesStep(x2, SeriesStep(x2,
    SeriesStep(x2, E8, 90), 56), 30), 12), 2)

CosSeries(x) == CosTerms(Mul8(x, x))

\* sin of an angle in [0, 90] degrees
SinQ(a5) ==
  IF a5 <= Deg(45) THEN SinSeries(Rad8(a5)) ELSE CosSeries(Rad8(Deg(90) - a5))

Sin8(a5) ==
  LET r == a5 % Deg(360)
  IN  IF r <= Deg(90) THEN SinQ(r)
      ELSE IF r <= Deg(180) THEN SinQ(Deg(180) - r)
      ELSE IF r <= Deg(270) THEN -SinQ(r - Deg(180))
      ELSE -SinQ(Deg(360) - r)

Cos8(a5) == Sin8(a5 + Deg(90))

RECURSIVE AcosBisect(_, _, _)
\* the largest a in [lo, hi) with Cos8(a) >= h, given Cos8(lo) >= h
AcosBisect(h, lo, hi) ==
  IF hi - lo <= 1 THEN lo
  ELSE LET mid == (lo + hi) \div 2
       IN  IF Cos8(mid) >= h THEN AcosBisect(h, mid, hi)
           ELSE AcosBisect(h, lo, mid)

\* 180 * math.Acos(h) / math.Pi for -1 <= h <= 1, in 1e-5 degree
AcosDeg5(h8) ==
  IF h8 >= E8 THEN 0
  ELSE IF h8 <= -E8 THEN Deg(180)
  ELSE AcosBisect(h8, 0, Deg(180))

\* 180 * math.Asin(x) / math.Pi, in 1e-5 degree
AsinDeg5(x8) == Deg(90) - AcosDeg5(x8)


(***************************************************************************)
(* time.Time: an instant and the zone it is shown in.  [sec, off] is the   *)
(* instant `sec` seconds after the Unix epoch in a zone `off` seconds east *)
(* of UTC (what time.LoadLocation and In(loc) give for that day).          *)
(***************************************************************************)
SecPerDay == 24 * 3600

\* the proleptic Gregorian date of a day number (days since 1970-01-01)
CivilFromDays(days) ==
  LET z   == days + 719468
      era == z \div 146097
      doe == z - era * 146097
      yoe == (doe - (doe \div 1460) + (doe \div 36524) - (doe \div 146096)) \div 365
      doy == doe - (365 * yoe + (yoe \div 4) - (yoe \div 100))
      mp  == (5 * doy + 2) \div 153
      d   == doy - ((153 * mp + 2) \div 5) + 1
      m   == IF mp < 10 THEN mp + 3 ELSE mp - 9
      y   == yoe + era * 400 + (IF m <= 2 THEN 1 ELSE 0)
  IN  [year |-> y, month |-> m, day |-> d]

\* the day number of a Gregorian date
DaysFromCivil(year, month, day) ==
  LET y   == IF month <= 2 THEN year - 1 ELSE year
      era == y \div 400
      yoe == y - era * 400
      mp  == IF month > 2 THEN month - 3 ELSE month + 9
      doy == ((153 * mp + 2) \div 5) + day - 1
      doe == yoe * 365 + (yoe \div 4) - (yoe \div 100) + doy
  IN  era * 146097 + doe - 719468

\* t.Year(), t.Month(), t.Day(), t.Hour(), t.Minute(), t.Second() in t's zone
Fields(t) ==
  LET loc == t.sec + t.off
      c   == CivilFromDays(loc \div SecPerDay)
      s   == loc % SecPerDay
  IN  [year |-> c.year, month |-> c.month, day |-> c.day,
       hour |-> s \div 3600, minute |-> (s % 3600) \div 60, second |-> s % 60]

\* t.UTC(), t.In(loc)
InUTC(t) == [sec |-> t.sec, off |-> 0]
InZone(t, off) == [sec |-> t.sec, off |-> off]

\* time.Date(year, month, day, hour, min, sec, 0, time.UTC): out-of-range
\* hour, min and sec values are normalised by carrying into the date.
DateUTC(year, month, day, hour, min, sec) ==
  [sec |-> DaysFromCivil(year, month, day) * SecPerDay
             + hour * 3600 + min * 60 + sec,
   off |-> 0]

\* the local calendar day of an instant, as a day number
LocalDay(t) == (t.sec + t.off) \div SecPerDay

(***************************************************************************)
(* internal/solar.go                                                       *)
(***************************************************************************)
\* the geometric horizon, without refraction and the solar radius
GeometricZenith == 90 * 10^5

sunriseZenith == 9083330

MsPerDay == 24 * 3600 * 1000

\* a Julian Day value with 0 <= ms < one day
NormJD(int, ms) == [int |-> int + (ms \div MsPerDay), ms |-> ms % MsPerDay]

\* julianDay without the Gregorian adjustment of lines 83-84 (b = 0)
JulianDayNumberNoCenturies(year, month, day, fracMs) ==
  NormJD(((36525 * (year + 4716)) \div 100)
           + ((306001 * (month + 1)) \div 10000)
           + day - 1525,
         fracMs + (MsPerDay \div 2))

\* lines 82-91 of julianDay: year and month are already shifted, fracMs is
\* the day fraction in milliseconds
JulianDayNumber(year, month, day, fracMs) ==
  LET a == year \div 100
      b == 2 - a + (a \div 4)
  IN  \* ... + dayFraction + b - 1524.5
      NormJD(((36525 * (year + 4716)) \div 100)
               + ((306001 * (month + 1)) \div 10000)
               + day + b - 1525,
             fracMs + (MsPerDay \div 2))

\* lines 68-80 of julianDay on the UTC fields of t
JulianDayOfFields(utc) ==
  JulianDayNumber(IF utc.month <= 2 THEN utc.year - 1 ELSE utc.year,
                  IF utc.month <= 2 THEN utc.month + 12 ELSE utc.month,
                  utc.day,
                  ((utc.hour * 60 + utc.minute) * 60 + utc.second) * 1000)

julianDay(t) == JulianDayOfFields(Fields(InUTC(t)))

\* jd + minutes/1440.0
JDPlusMinutes(jd, min5) == NormJD(jd.int, jd.ms + ((min5 * 6) \div 10))

\* (jd - 2451545.0) / 36525.0, in 1e-9 century
julianDayToJulianCentury(jd) ==
  LET d == jd.int - 2451545
      q == jd.ms \div 315576
      r == jd.ms % 315576
  IN  d * 27378 + ((d * 50787) \div E5) + q * 100 + ((r * 100) \div 315576)

\* jc*jc and jc*jc*jc, in 1e-10
Jc2(jc) == Mul8(jc, jc)
Jc3(jc) == Mul8(Jc2(jc), jc) \div 10

geomMeanLongSun(jc) ==
  LET l0 == 28046646 + 3 * jc + Mul8(jc, 60007698)
              + (Mul8(Jc2(jc), 3032) \div E4)
  IN  l0 % Deg(360)

\* the code does not reduce the anomaly; every use is inside Sin, so the
\* model keeps it modulo 360 degrees to stay inside 32 bits
geomMeanAnomalySun(jc) ==
  (35752911 + 3 * jc + Mul8(jc, 59990503)
     - (Mul8(Jc2(jc), 1537) \div E4)) % Deg(360)

\* in 1e-8
eccentricEarthOrbit(jc) ==
  1670863 - (Mul8(jc, 42037) \div 100) - (Mul8(Jc2(jc), 1267) \div E4)

\* lines 119-128 of sunEqOfCenter, m the mean anomaly
EqOfCenterAt(jc, m) ==
  LET \* coefficients in 1e-7 degree
      c1 == 19146020 - (Mul8(jc, 481700) \div 100)
              - (Mul8(Jc2(jc), 14) \div 10)
      c2 == 199930 - (Mul8(jc, 10100) \div 100)
      c3 == 2890
  IN  (Mul8(Sin8(m), c1) + Mul8(Sin8(2 * m), c2) + Mul8(Sin8(3 * m), c3))
        \div 100

sunEqOfCenter(jc) == EqOfCenterAt(jc, geomMeanAnomalySun(jc))

sunTrueLong(jc) == geomMeanLongSun(jc) + sunEqOfCenter(jc)

Omega(jc) == 12504000 - Mul8(jc, 19341360)

sunApparentLong(jc) ==
  sunTrueLong(jc) - 569 - Mul8(Sin8(Omega(jc)), 478)

meanObliquityOfEcliptic(jc) ==
  LET \* seconds, in 1e-5
      seconds == 2144800 - Mul8(jc, 468150)
                   - (Mul8(Jc2(jc), 59) \div 100)
                   + (Mul8(Jc3(jc), 181) \div 100)
  IN  Deg(23) + ((Deg(26) + (seconds \div 60)) \div 60)

obliquityCorrection(jc) ==
  meanObliquityOfEcliptic(jc) + Mul8(Cos8(Omega(jc)), 256)

sunDeclination(jc) ==
  AsinDeg5(Mul8(Sin8(obliquityCorrection(jc)), Sin8(sunApparentLong(jc))))

\* in 1e-5 minute
\* math.Tan(math.Pi * epsilon / 360.0)
TanHalf(epsilon) == Div8(Sin8(epsilon \div 2), Cos8(epsilon \div 2))

\* lines 183-186 of equationOfTime
EqTimeTerms(y, e, sin2l0, sinm, cos2l0, sin4l0, sin2m) ==
  \* 4.0 * 180.0 * etime / math.Pi: 229.18311805 minutes per unit
  Mul8(Mul8(y, sin2l0) - 2 * Mul8(e, sinm)
         + 4 * Mul8(Mul8(Mul8(e, y), sinm), cos2l0)
         - (Mul8(Mul8(y, y), sin4l0) \div 2)
         - ((5 * Mul8(Mul8(e, e), sin2m)) \div 4),
       22918312)

\* lines 174-181 of equationOfTime
EqTimeFrom(t, l0, e, m) ==
  EqTimeTerms(Mul8(t, t), e, Sin8(2 * l0), Sin8(m), Cos8(2 * l0),
              Sin8(4 * l0), Sin8(2 * m))

equationOfTime(jc) ==
  EqTimeFrom(TanHalf(obliquityCorrection(jc)), geomMeanLongSun(jc),
             eccentricEarthOrbit(jc), geomMeanAnomalySun(jc))

\* (cos(zenith) - sin(lat)sin(dec)) and (cos(lat)cos(dec)), the numerator and
\* denominator of h
HourAngleNum(lat, declination, zenith) ==
  Cos8(zenith) - Mul8(Sin8(lat), Sin8(declination))

HourAngleDen(lat, declination) == Mul8(Cos8(lat), Cos8(declination))

\* h compared with 1.0 and -1.0.  For lat in [-90, 90] and a declination
\* inside (-90, 90) the denominator is never negative; where it rounds to 0
\* (float64 keeps a tiny positive cos(pi/2)) the quotient has the sign of the
\* numerator and a huge magnitude.
HourAngleAbove(num, den) == num > den
HourAngleBelow(num, den) == num < -den

\* hourAngleFromZenith with the two clamps exchanged
HourAngleClampsSwapped(num, den) ==
  IF HourAngleAbove(num, den) THEN Deg(180)
  ELSE IF HourAngleBelow(num, den) THEN 0
  ELSE IF den = 0 THEN Deg(90)
  ELSE AcosDeg5(Div8(num, den))

\* lines 199-206 of hourAngleFromZenith
HourAngleOf(num, den) ==
  IF HourAngleAbove(num, den) THEN 0
  ELSE IF HourAngleBelow(num, den) THEN Deg(180)
  ELSE IF den = 0 THEN Deg(90)
  ELSE AcosDeg5(Div8(num, den))

hourAngleFromZenith(lat, declination, zenith) ==
  HourAngleOf(HourAngleNum(lat, declination, zenith),
              HourAngleDen(lat, declination))

\* lines 49-62 of timeOfTransit: the offset from the hour angle and the
\* equation of time, the midnight adjustment, and 720 + offset
Minute5(n) == n * E5

\* timeOfTransit without the sign change of line 49
TransitOffsetNoFlip(lon, hourAngle, eqTime, rising) ==
  ((-lon - hourAngle) * 4) - eqTime

\* timeOfTransit with the sign change made for the rising call instead
TransitOffsetFlipped(lon, hourAngle, eqTime, rising) ==
  ((-lon - (IF rising THEN -hourAngle ELSE hourAngle)) * 4) - eqTime

TransitOffset(lon, hourAngle, eqTime, rising) ==
  LET ha    == IF rising THEN hourAngle ELSE -hourAngle
      delta == -lon - ha
  IN  (delta * 4) - eqTime

\* the adjustment applied from -720 on instead of below it
TransitAdjustInclusive(offset) ==
  IF offset <= -Minute5(720) THEN offset + Minute5(1440) ELSE offset

TransitAdjust(offset) ==
  IF offset < -Minute5(720) THEN offset + Minute5(1440) ELSE offset

TransitMinutes(lon, hourAngle, eqTime, rising) ==
  Minute5(720) + TransitAdjust(TransitOffset(lon, hourAngle, eqTime, rising))

\* the locals of one timeOfTransit call and the value it returns
TransitRecord(declination, hourAngle, eqTime, lon, rising) ==
  [declination |-> declination, hourAngle |-> hourAngle, eqTime |-> eqTime,
   offset  |-> TransitOffset(lon, hourAngle, eqTime, rising),
   minutes |-> TransitMinutes(lon, hourAngle, eqTime, rising)]

TransitFrom(declination, eqTime, lat, lon, zenith, rising) ==
  TransitRecord(declination, hourAngleFromZenith(lat, declination, zenith),
                eqTime, lon, rising)

TransitAt(jc, lat, lon, zenith, rising) ==
  TransitFrom(sunDeclination(jc), equationOfTime(jc), lat, lon, zenith, rising)

TransitDetail(jd, lat, lon, zenith, rising) ==
  TransitAt(julianDayToJulianCentury(jd), lat, lon, zenith, rising)

timeOfTransit(jd, lat, lon, zenith, rising) ==
  TransitDetail(jd, lat, lon, zenith, rising).minutes

\* minutes in 1e-5 minute; date supplies the calendar day and the zone
\* lines 211-213 of minutesToTime: hours, mins, secs
MinutesHMS(minutes, whole) ==
  [hours |-> TruncDiv(minutes, 60 * E5),
   mins  |-> GoRem(whole, 60),
   secs  |-> TruncDiv((minutes - whole * E5) * 60, E5)]

\* lines 215-217 of minutesToTime, f the fields of date
MinutesOnDate(f, hms, off) ==
  InZone(DateUTC(f.year, f.month, f.day, hms.hours, hms.mins, hms.secs), off)

\* minutesToTime building on the year, month and day of date in UTC
minutesToTimeOnUTCDate(date, minutes) ==
  MinutesOnDate(Fields(InUTC(date)),
                MinutesHMS(minutes, TruncDiv(minutes, E5)), date.off)

minutesToTime(date, minutes) ==
  MinutesOnDate(Fields(date), MinutesHMS(minutes, TruncDiv(minutes, E5)),
                date.off)

(***************************************************************************)
(* float64 arithmetic of minutesToTime, bit for bit.  A non-negative       *)
(* number is a sequence of four limbs of 20 bits, least significant first; *)
(* minutes are held in units of 2^-52 minute, so every float64 in          *)
(* [1, 4096) and every multiple of 2^-52 below 1 is held exactly.          *)
(***************************************************************************)
Limb == 2^20

Big(x) == <<x % Limb, x \div Limb, 0, 0>>

RECURSIVE MulFrom(_, _, _, _)
MulFrom(n, c, i, carry) ==
  IF i > Len(n) THEN <<>>
  ELSE <<(n[i] * c + carry) % Limb>>
         \o MulFrom(n, c, i + 1, (n[i] * c + carry) \div Limb)

\* n * c, c at most 2^10
MulSmall(n, c) == MulFrom(n, c, 1, 0)

DivJoin(lower, digit) == [q |-> Append(lower.q, digit), rem |-> lower.rem]

RECURSIVE DivFrom(_, _, _, _)
DivFrom(n, c, i, rem) ==
  IF i = 0 THEN [q |-> <<>>, rem |-> rem]
  ELSE DivJoin(DivFrom(n, c, i - 1, (rem * Limb + n[i]) % c),
               (rem * Limb + n[i]) \div c)

\* n divided by c, c at most 2^10: quotient and remainder
DivSmall(n, c) == DivFrom(n, c, Len(n), 0)

RECURSIVE AddFrom(_, _, _)
\* n + carry from limb i on; carry may be negative
AddFrom(n, i, carry) ==
  IF i > Len(n) THEN <<>>
  ELSE <<(n[i] + carry) % Limb>> \o AddFrom(n, i + 1, (n[i] + carry) \div Limb)

RECURSIVE BitsOf(_)
BitsOf(x) == IF x = 0 THEN 0 ELSE 1 + BitsOf(x \div 2)

RECURSIVE BitLenFrom(_, _)
BitLenFrom(n, i) ==
  IF i = 0 THEN 0
  ELSE IF n[i] # 0 THEN 20 * (i - 1) + BitsOf(n[i])
  ELSE BitLenFrom(n, i - 1)

\* the number of significant bits of n
BitLen(n) == BitLenFrom(n, Len(n))

RECURSIVE ShiftLeft(_, _)
ShiftLeft(n, d) ==
  IF d <= 0 THEN n
  ELSE IF d > 10 THEN ShiftLeft(MulSmall(n, 2^10), d - 10)
  ELSE MulSmall(n, 2^d)

RECURSIVE ShiftRight(_, _, _)
\* n without its d lowest bits, and whether any bit dropped was set
ShiftRight(n, d, sticky) ==
  IF d <= 0 THEN [n |-> n, sticky |-> sticky]
  ELSE IF d > 10
    THEN ShiftRight(DivSmall(n, 2^10).q, d - 10,
                    sticky \/ DivSmall(n, 2^10).rem # 0)
  ELSE [n |-> DivSmall(n, 2^d).q, sticky |-> sticky \/ DivSmall(n, 2^d).rem # 0]

\* a 54-bit value and the sticky bit rounded to 53 bits, ties to even
RoundNearestEven(s) ==
  AddFrom(DivSmall(s.n, 2).q, 1,
          IF s.n[1] % 2 = 1 /\ (s.sticky \/ (s.n[1] \div 2) % 2 = 1)
            THEN 1 ELSE 0)

\* the float64 nearest to n (and the bits below it, if sticky)
Round53(n, sticky) ==
  IF BitLen(n) <= 53 THEN n
  ELSE ShiftLeft(RoundNearestEven(ShiftRight(n, BitLen(n) - 54, sticky)),
                 BitLen(n) - 53)

\* int(x) and x - float64(int(x)) of x in units of 2^-52
IntOf(n) == (n[4] * Limb + n[3]) \div 2^12
FracOf(n) == <<n[1], n[2], n[3] % 2^12, 0>>

\* int(minutes / 60.0): the quotient in units of 2^-62, rounded to float64
Hours64(n) ==
  Round53(DivSmall(ShiftLeft(n, 10), 60).q,
          DivSmall(ShiftLeft(n, 10), 60).rem # 0)[4] \div 4

\* int((minutes - float64(int(minutes))) * 60.0)
Secs64(n) == IntOf(Round53(MulSmall(FracOf(n), 60), FALSE))

\* lines 211-213 of minutesToTime on the float64 n * 2^-52
MinutesHMS64(n) ==
  [hours |-> Hours64(n), mins |-> IntOf(n) % 60, secs |-> Secs64(n)]

\* minutesToTime(date, minutes), minutes the float64 n * 2^-52
minutesToTime64(date, n) ==
  MinutesOnDate(Fields(date), MinutesHMS64(n), date.off)

\* the second pass with each event refined from the other event's estimate
SecondPassCrossed(jd, sr1, ss1, lat, lon) ==
  [jd |-> jd, sunrise1 |-> sr1, sunset1 |-> ss1,
   sunrise2 |-> TransitDetail(JDPlusMinutes(jd, ss1.minutes), lat, lon,
                              sunriseZenith, TRUE),
   sunset2  |-> TransitDetail(JDPlusMinutes(jd, sr1.minutes), lat, lon,
                              sunriseZenith, FALSE)]

\* the first pass returned as it is, without the calls of lines 31-32
SecondPassSkipped(jd, sr1, ss1, lat, lon) ==
  [jd |-> jd, sunrise1 |-> sr1, sunset1 |-> ss1,
   sunrise2 |-> sr1, sunset2 |-> ss1]

\* the four timeOfTransit calls of CalculateTimes: first pass, second pass
\* lines 27-35 of CalculateTimes: the second pass
SecondPass(jd, sr1, ss1, lat, lon) ==
  [jd |-> jd, sunrise1 |-> sr1, sunset1 |-> ss1,
   sunrise2 |-> TransitDetail(JDPlusMinutes(jd, sr1.minutes), lat, lon,
                              sunriseZenith, TRUE),
   sunset2  |-> TransitDetail(JDPlusMinutes(jd, ss1.minutes), lat, lon,
                              sunriseZenith, FALSE)]

\* lines 20-25 of CalculateTimes: the first pass
FirstPass(jd, lat, lon) ==
  SecondPass(jd, TransitDetail(jd, lat, lon, sunriseZenith, TRUE),
             TransitDetail(jd, lat, lon, sunriseZenith, FALSE), lat, lon)

TransitPasses(lat, lon, t) == FirstPass(julianDay(t), lat, lon)

\* lines 28-32 of CalculateTimes once more, on the values of the second
\* pass p
ThirdPass(p, lat, lon) ==
  [done |-> TRUE,
   sunrise3 |-> TransitDetail(JDPlusMinutes(p.jd, p.sunrise2.minutes), lat,
                              lon, sunriseZenith, TRUE),
   sunset3  |-> TransitDetail(JDPlusMinutes(p.jd, p.sunset2.minutes), lat,
                              lon, sunriseZenith, FALSE)]

\* lines 37-38 of CalculateTimes
TimesOfPasses(t, p) ==
  [sunrise |-> minutesToTime(t, p.sunrise2.minutes),
   sunset  |-> minutesToTime(t, p.sunset2.minutes),
   passes  |-> p]

\* the result of CalculateTimes, with the passes it went through
CalculateTimesTrace(lat, lon, t) == TimesOfPasses(t, TransitPasses(lat, lon, t))

TimesOnly(r) == [sunrise |-> r.sunrise, sunset |-> r.sunset]

CalculateTimes(lat, lon, t) == TimesOnly(CalculateTimesTrace(lat, lon, t))

(***************************************************************************)
(* plugins: the handlers applyMode calls.  A handler gets the plugin's     *)
(* configuration and the environment (files, directories, osascript) and   *)
(* gives [result, env]: result "ok" for a nil error, "err" for an error,   *)
(* "panic" for a run-time panic, env the environment it leaves.            *)
(***************************************************************************)
Registry ==
  {"iterm2", "cursor", "claude-code", "neovim", "macos-system", "sublime",
   "pycharm"}

Outcome(result, env) == [result |-> result, env |-> env]

\* the preset or theme of the mode: config.Night, or config.Day if IsLight
ModeValue(config) == IF config.IsLight THEN config.Day ELSE config.Night

\* env.osascript: whether `osascript -e script` exits with status 0
ITerm2(config, env) ==
  IF ModeValue(config) = "" THEN Outcome("err", env)
  ELSE IF env.osascript THEN Outcome("ok", env)
  ELSE Outcome("err", env)

\* A settings file is [kind, writable, text].  kind: "missing" (ReadFile
\* fails), "invalid" (Unmarshal fails), "null" (the JSON value null:
\* Unmarshal leaves the map nil), "object".  writable: whether MkdirAll and
\* WriteFile succeed.  text: the bytes of an object, as the members in the
\* order they are written (a key may be written twice) and the number of
\* spaces of indentation.
Text(members, indent) == [members |-> members, indent |-> indent]

NoSettings == [k \in {} |-> ""]

\* the keys of the model in the byte order json.Marshal sorts map keys by
KeyOrder ==
  <<"editor.fontSize", "sync.revision", "theme",
    "window.autoDetectColorScheme", "workbench.colorTheme">>

RECURSIVE LastValue(_, _, _)
\* the value of the last member of members[1..n] with this key
LastValue(members, key, n) ==
  IF members[n][1] = key THEN members[n][2]
  ELSE LastValue(members, key, n - 1)

\* the number literals 2^53 + r, r = 0..4; every other value of the model
\* is a string or a number that float64 holds exactly
BigLiterals ==
  <<"9007199254740992", "9007199254740993", "9007199254740994",
    "9007199254740995", "9007199254740996">>

\* 2^53 + r as a float64: between 2^53 and 2^54 the float64 values are the
\* even integers, and a tie goes to the even mantissa
RoundToEven(r) ==
  IF r % 2 = 0 THEN r ELSE IF r % 4 = 1 THEN r - 1 ELSE r + 1

\* a value decoded into interface{} and encoded again: a number becomes a
\* float64 and is printed from it
Float64(v) ==
  IF \E r \in 1..Len(BigLiterals) : BigLiterals[r] = v
    THEN BigLiterals[RoundToEven((CHOOSE r \in 1..Len(BigLiterals) :
                                    BigLiterals[r] = v) - 1) + 1]
    ELSE v

\* json.Unmarshal(data, &settings): a key written twice keeps the later
\* value, a number is decoded as a float64
Unmarshal(text) ==
  [k \in { text.members[i][1] : i \in 1..Len(text.members) } |->
     Float64(LastValue(text.members, k, Len(text.members)))]

KeyInMap(settings, k) == k \in DOMAIN settings

\* the keys of a map in sorted order
SortedKeys(settings) == SelectSeq(KeyOrder, LAMBDA k : KeyInMap(settings, k))

MembersOf(settings, keys) ==
  [i \in 1..Len(keys) |-> <<keys[i], settings[keys[i]]>>]

\* json.MarshalIndent(settings, "", "  "): keys sorted, two spaces
MarshalIndent(settings) == Text(MembersOf(settings, SortedKeys(settings)), 2)

\* settings[key] = value on the decoded object
SetKey(settings, key, value) ==
  [k \in (DOMAIN settings) \cup {key} |->
     IF k = key THEN value ELSE settings[k]]

\* lines 39-59 of UpdateJSONTheme once the file is read: the assignment of
\* line 44 panics on the nil map
Rewrite(file, settings) ==
  IF file.kind = "invalid" THEN [result |-> "err", file |-> file]
  ELSE IF file.kind = "null" THEN [result |-> "panic", file |-> file]
  ELSE IF ~file.writable THEN [result |-> "err", file |-> file]
  ELSE [result |-> "ok", file |-> [file EXCEPT !.text = MarshalIndent(settings)]]

\* the member key: value written after the members the file has, without
\* decoding them
UpdateJSONThemeAppend(file, key, value) ==
  IF file.kind \in {"missing", "invalid"} THEN [result |-> "err", file |-> file]
  ELSE IF file.kind = "null" THEN [result |-> "panic", file |-> file]
  ELSE IF ~file.writable THEN [result |-> "err", file |-> file]
  ELSE [result |-> "ok",
        file |-> [file EXCEPT !.text.members = Append(@, <<key, value>>)]]

\* UpdateJSONTheme(path, key, value) on the file at path; gives [result, file]
UpdateJSONTheme(file, key, value) ==
  IF file.kind = "missing" THEN [result |-> "err", file |-> file]
  ELSE Rewrite(file, SetKey(Unmarshal(file.text), key, value))

\* lines 78-80 of UpdateJSONSettings
SetKeys(settings, updates) ==
  [k \in (DOMAIN settings) \cup (DOMAIN updates) |->
     IF k \in DOMAIN updates THEN updates[k] ELSE settings[k]]

\* UpdateJSONSettings(path, updates)
UpdateJSONSettings(file, updates) ==
  IF DOMAIN updates = {} THEN [result |-> "ok", file |-> file]
  ELSE IF file.kind = "missing" THEN [result |-> "err", file |-> file]
  ELSE Rewrite(file, SetKeys(Unmarshal(file.text), updates))

\* config.Custom: a map from "day" and "night" to [isMap, settings], isMap
\* whether the value is itself a map
NoCustom == [k \in {} |-> [isMap |-> FALSE, settings |-> NoSettings]]

ModeKey(config) == IF config.IsLight THEN "day" ELSE "night"

\* GetModeSettings reading the settings of the other mode
GetOtherModeSettings(config) ==
  IF ModeKey([config EXCEPT !.IsLight = ~@]) \notin DOMAIN config.Custom
    THEN NoSettings
  ELSE IF ~config.Custom[ModeKey([config EXCEPT !.IsLight = ~@])].isMap
    THEN NoSettings
  ELSE config.Custom[ModeKey([config EXCEPT !.IsLight = ~@])].settings

\* config.GetModeSettings(): the empty map stands for nil
GetModeSettings(config) ==
  IF ModeKey(config) \notin DOMAIN config.Custom THEN NoSettings
  ELSE IF ~config.Custom[ModeKey(config)].isMap THEN NoSettings
  ELSE config.Custom[ModeKey(config)].settings

CursorTheme(config) ==
  IF ModeValue(config) # "" THEN ModeValue(config)
  ELSE IF config.IsLight THEN "Default Light+" ELSE "Default Dark+"

CursorWritten(env, r) ==
  Outcome(r.result, [env EXCEPT !.cursorSettings = r.file])

\* Cursor: the mode's custom settings if there are any, else the theme
Cursor(config, env) ==
  IF DOMAIN GetModeSettings(config) # {}
    THEN CursorWritten(env, UpdateJSONSettings(env.cursorSettings,
                                               GetModeSettings(config)))
    ELSE CursorWritten(env, UpdateJSONTheme(env.cursorSettings,
                                            "workbench.colorTheme",
                                            CursorTheme(config)))

\* directory names are sequences of characters
PyCharmPrefix   == <<"P", "y", "C", "h", "a", "r", "m">>
PyCharmCEPrefix == <<"P", "y", "C", "h", "a", "r", "m", "C", "E">>

\* name[:n] of Go is a run-time panic when n exceeds len(name)
SliceInRange(name, n) == n <= Len(name)

\* the condition of line 43, with || and && evaluated left to right:
\* "yes", "no", or "panic" when name[:9] is out of range
IsPyCharmDir(name) ==
  IF Len(name) < 7 THEN "no"
  ELSE IF SubSeq(name, 1, 7) = PyCharmPrefix THEN "yes"
  ELSE IF ~SliceInRange(name, 9) THEN "panic"
  ELSE IF SubSeq(name, 1, 9) = PyCharmCEPrefix THEN "yes"
  ELSE "no"

RECURSIVE FindPyCharmDir(_, _)
\* lines 39-48 of PyCharm: the index of the first match from entry i on,
\* 0 when there is none, -1 for a panic
FindPyCharmDir(entries, i) ==
  IF i > Len(entries) THEN 0
  ELSE IF ~entries[i].isDir THEN FindPyCharmDir(entries, i + 1)
  ELSE IF IsPyCharmDir(entries[i].name) = "yes" THEN i
  ELSE IF IsPyCharmDir(entries[i].name) = "panic" THEN -1
  ELSE FindPyCharmDir(entries, i + 1)

\* lines 10-23 of PyCharm
PyCharmLaf(config) ==
  [class   |-> IF config.IsLight THEN "com.intellij.ide.ui.laf.IntelliJLaf"
               ELSE "com.intellij.ide.ui.laf.darcula.DarculaLaf",
   themeId |-> IF ModeValue(config) # "" THEN ModeValue(config)
               ELSE IF config.IsLight THEN "IntelliJ" ELSE "Darcula"]

\* lines 50-70 of PyCharm, found the result of the scan
PyCharmWrite(config, env, found) ==
  IF found = -1 THEN Outcome("panic", env)
  ELSE IF found = 0 THEN Outcome("err", env)
  ELSE Outcome("ok", [env EXCEPT !.laf = [dir |-> found] @@ PyCharmLaf(config)])

\* env.jetbrains: the JetBrains directory, [exists, entries]
PyCharm(config, env) ==
  IF ~env.jetbrains.exists THEN Outcome("err", env)
  ELSE PyCharmWrite(config, env, FindPyCharmDir(env.jetbrains.entries, 1))

ClaudeCodeWritten(env, r) ==
  Outcome(r.result, [env EXCEPT !.claudeSettings = r.file])

\* ClaudeCode: the mode's custom settings if there are any, else the theme
ClaudeCode(config, env) ==
  IF DOMAIN GetModeSettings(config) # {}
    THEN ClaudeCodeWritten(env, UpdateJSONSettings(env.claudeSettings,
                                                   GetModeSettings(config)))
    ELSE ClaudeCodeWritten(env, UpdateJSONTheme(env.claudeSettings, "theme",
                                                IF config.IsLight THEN "light"
                                                ELSE "dark"))

\* plugins.Registry[name](config); the handlers without a model of their
\* own succeed
CallPlugin(name, config, env) ==
  IF name = "iterm2" THEN ITerm2(config, env)
  ELSE IF name = "cursor" THEN Cursor(config, env)
  ELSE IF name = "claude-code" THEN ClaudeCode(config, env)
  ELSE IF name = "pycharm" THEN PyCharm(config, env)
  ELSE Outcome("ok", env)

(***************************************************************************)
(* cmd/day-night-cycle/main.go                                             *)
(***************************************************************************)
\* config := pluginEntry.PluginConfig; config.IsLight = isLight
PluginConfigOf(entry, isLight) ==
  [IsLight |-> isLight, Day |-> entry.day, Night |-> entry.night,
   Custom |-> entry.custom]

\* the state of applyMode's loop: the calls made, the lines printed, the
\* counters, the environment
ApplyStart(env) ==
  [calls |-> <<>>, lines |-> <<>>, success |-> 0, total |-> 0, env |-> env,
   completed |-> FALSE, panicked |-> FALSE]

\* line 138
ApplyCompleted(acc) == [acc EXCEPT !.completed = TRUE]

\* an unknown name counted as a handler that was tried
ApplyUnknownCounted(acc, name) ==
  [acc EXCEPT !.total = @ + 1,
              !.lines = Append(@, [name |-> name, result |-> "unknown plugin"])]

\* lines 122-123
ApplyUnknown(acc, name) ==
  [acc EXCEPT !.lines = Append(@, [name |-> name, result |-> "unknown plugin"])]

\* lines 126-135, r the outcome of the call; a panic unwinds applyMode
ApplyCalled(acc, name, config, r) ==
  [acc EXCEPT
     !.total    = @ + 1,
     !.calls    = Append(@, [name |-> name, IsLight |-> config.IsLight]),
     !.lines    = IF r.result = "panic" THEN @
                  ELSE Append(@, [name |-> name, result |-> r.result]),
     !.success  = IF r.result = "ok" THEN @ + 1 ELSE @,
     !.env      = r.env,
     !.panicked = (r.result = "panic")]

RECURSIVE ApplyLoop(_, _, _, _)
\* lines 115-138 of applyMode from entry i on
ApplyLoop(plugins, i, isLight, acc) ==
  IF acc.panicked THEN acc
  ELSE IF i > Len(plugins) THEN ApplyCompleted(acc)
  ELSE IF ~plugins[i].enabled THEN ApplyLoop(plugins, i + 1, isLight, acc)
  ELSE IF plugins[i].name \notin Registry
    THEN ApplyLoop(plugins, i + 1, isLight, ApplyUnknown(acc, plugins[i].name))
  ELSE ApplyLoop(plugins, i + 1, isLight,
         ApplyCalled(acc, plugins[i].name, PluginConfigOf(plugins[i], isLight),
                     CallPlugin(plugins[i].name,
                                PluginConfigOf(plugins[i], isLight), acc.env)))

applyMode(config, isLight, env) ==
  ApplyLoop(config.plugins, 1, isLight, ApplyStart(env))

\* t.Add(d), d in seconds
Add(t, d) == [sec |-> t.sec + d, off |-> t.off]

\* ApplyOffsets with the two durations exchanged
ApplyOffsetsExchanged(config, times) ==
  [sunrise |-> Add(times.sunrise, config.nightOffset),
   sunset  |-> Add(times.sunset, config.dayOffset)]

\* internal/config: ApplyOffsets
ApplyOffsets(config, times) ==
  [sunrise |-> Add(times.sunrise, config.dayOffset),
   sunset  |-> Add(times.sunset, config.nightOffset)]

\* Duration strings are sequences of characters over the sign, the digits
\* and the letters of the units h, m, s and ms; durations are in
\* milliseconds.
Digits == {"0", "1", "2", "3", "4", "5", "6", "7", "8", "9"}

DigitValue(c) ==
  CASE c = "0" -> 0 [] c = "1" -> 1 [] c = "2" -> 2 [] c = "3" -> 3
    [] c = "4" -> 4 [] c = "5" -> 5 [] c = "6" -> 6 [] c = "7" -> 7
    [] c = "8" -> 8 [] c = "9" -> 9

RECURSIVE DigitsEnd(_, _)
\* the first position from i on that holds no digit
DigitsEnd(str, i) ==
  IF i <= Len(str) /\ str[i] \in Digits THEN DigitsEnd(str, i + 1) ELSE i

RECURSIVE UnitEnd(_, _)
\* the first position from i on that holds a digit
UnitEnd(str, i) ==
  IF i <= Len(str) /\ str[i] \notin Digits THEN UnitEnd(str, i + 1) ELSE i

RECURSIVE NumberOf(_, _, _)
\* the decimal value of str[i..j-1]
NumberOf(str, i, j) ==
  IF j <= i THEN 0 ELSE NumberOf(str, i, j - 1) * 10 + DigitValue(str[j - 1])

\* the milliseconds of a unit, 0 for a unit time.ParseDuration does not know
UnitMs(unit) ==
  IF unit = <<"h">> THEN 3600 * 1000
  ELSE IF unit = <<"m">> THEN 60 * 1000
  ELSE IF unit = <<"s">> THEN 1000
  ELSE IF unit = <<"m", "s">> THEN 1
  ELSE 0

Parsed(ok, ms) == [ok |-> ok, ms |-> ms]

RECURSIVE ParseSegments(_, _, _)
\* the loop of time.ParseDuration from position i on: digits, then a unit
ParseSegments(str, i, acc) ==
  IF i > Len(str) THEN Parsed(TRUE, acc)
  ELSE IF DigitsEnd(str, i) = i THEN Parsed(FALSE, 0)
  ELSE IF UnitMs(SubSeq(str, DigitsEnd(str, i),
                        UnitEnd(str, DigitsEnd(str, i)) - 1)) = 0
    THEN Parsed(FALSE, 0)
  ELSE ParseSegments(str, UnitEnd(str, DigitsEnd(str, i)),
         acc + NumberOf(str, i, DigitsEnd(str, i))
                 * UnitMs(SubSeq(str, DigitsEnd(str, i),
                                 UnitEnd(str, DigitsEnd(str, i)) - 1)))

\* the string after its sign: "0" is zero, the empty string is an error
ParseUnsigned(str) ==
  IF str = <<"0">> THEN Parsed(TRUE, 0)
  ELSE IF str = <<>> THEN Parsed(FALSE, 0)
  ELSE ParseSegments(str, 1, 0)

Negated(r) == Parsed(r.ok, -r.ms)

\* time.ParseDuration(str)
ParseDuration(str) ==
  IF str # <<>> /\ str[1] = "-" THEN Negated(ParseUnsigned(Tail(str)))
  ELSE IF str # <<>> /\ str[1] = "+" THEN ParseUnsigned(Tail(str))
  ELSE ParseUnsigned(str)

\* lines 77-83 and 85-91 of parseOffsets: one offset string; the field
\* keeps its zero value when the string is empty
OffsetOf(str) == IF str = <<>> THEN Parsed(TRUE, 0) ELSE ParseDuration(str)

\* Config{}
EmptyConfig ==
  [done |-> TRUE, lat |-> 0, lon |-> 0, off |-> 0, tzKnown |-> TRUE,
   DayOffset |-> <<>>, NightOffset |-> <<>>, dayOffset |-> 0,
   nightOffset |-> 0, plugins |-> <<>>]

Loaded(err, config) == [err |-> err, config |-> config]

\* the Config of a file that was read, parsed and whose offsets parsed; the
\* instants of the model are whole seconds, and so are its durations
ConfigOf(file, day, night) ==
  [done |-> TRUE, lat |-> file.lat, lon |-> file.lon, off |-> file.off,
   tzKnown |-> file.tzKnown, DayOffset |-> file.DayOffset,
   NightOffset |-> file.NightOffset, dayOffset |-> day.ms \div 1000,
   nightOffset |-> night.ms \div 1000, plugins |-> file.plugins]

\* Load(path) on the file at path: kind "missing" (ReadFile fails),
\* "unparsable" (yaml.Unmarshal fails) or "yaml"
Load(file) ==
  IF file.kind = "missing" THEN Loaded("reading config", EmptyConfig)
  ELSE IF file.kind = "unparsable" THEN Loaded("parsing config", EmptyConfig)
  ELSE IF ~OffsetOf(file.DayOffset).ok \/ ~OffsetOf(file.NightOffset).ok
    THEN Loaded("invalid location offsets", EmptyConfig)
  ELSE Loaded("", ConfigOf(file, OffsetOf(file.DayOffset),
                           OffsetOf(file.NightOffset)))

\* LoadLocation(tz): the zone is a fixed offset, or its name is not one the
\* time package can load
LoadLocation(config) == IF config.tzKnown THEN "" ELSE "loading timezone"

\* time.Now().In(loc) when the clock reads `clock`
NowIn(config, clock) == [sec |-> clock, off |-> config.off]

\* lines 82-88 of runAuto, 247-254 of runSchedule
TodaysTimes(config, clock) ==
  ApplyOffsets(config,
               CalculateTimes(config.lat, config.lon, NowIn(config, clock)))

\* now.After(sunrise) && now.Before(sunset) with >= and <= in their place
IsLightInclusive(t, times) ==
  t.sec >= times.sunrise.sec /\ t.sec <= times.sunset.sec

\* line 91 of runAuto: now.After(sunrise) && now.Before(sunset)
IsLightAt(t, times) ==
  t.sec > times.sunrise.sec /\ t.sec < times.sunset.sec

\* what is kept of a run of runAuto
AutoRun(started, t, times, isLight, applied) ==
  [done |-> TRUE, command |-> "auto", started |-> started, now |-> t,
   sunrise |-> times.sunrise, sunset |-> times.sunset,
   isLight |-> isLight, applied |-> applied]

\* lines 90-93 of runAuto
AutoDecide(config, started, t, times, e) ==
  AutoRun(started, t, times, IsLightAt(t, times),
          applyMode(config, IsLightAt(t, times), e))

\* runAuto with the clock reading `started` at line 85 and `clock` at line 90
runAuto(config, started, clock, e) ==
  AutoDecide(config, started, NowIn(config, clock),
             TodaysTimes(config, started), e)

(***************************************************************************)
(* internal/schedule.go                                                    *)
(***************************************************************************)
\* the StartCalendarInterval entries of the plist, fs and ft the fields of
\* sunrise and sunset
PlistOf(fs, ft, day) ==
  [done |-> TRUE,
   SunriseHour |-> fs.hour, SunriseMinute |-> fs.minute,
   SunsetHour  |-> ft.hour, SunsetMinute  |-> ft.minute,
   written |-> day]

\* a path: absolute or relative, and its components
Path(abs, parts) == [abs |-> abs, parts |-> parts]

\* filepath.Join(p, parts...)
Join(p, parts) == [p EXCEPT !.parts = @ \o parts]

\* filepath.Dir(p)
DirOf(p) == [p EXCEPT !.parts = SubSeq(@, 1, Len(@) - 1)]

\* filepath.Abs(p): [ok, path]; a relative path is joined to the working
\* directory, and the call fails when the working directory cannot be had
AbsPath(sys, p) ==
  IF p.abs THEN [ok |-> TRUE, path |-> p]
  ELSE IF sys.cwd.ok THEN [ok |-> TRUE, path |-> Join(sys.cwd.path, p.parts)]
  ELSE [ok |-> FALSE, path |-> p]

\* lines 58-61 of Generate: the error of filepath.Abs is dropped and the
\* path kept as given
AbsConfigPath(sys, configPath) ==
  IF AbsPath(sys, configPath).ok THEN AbsPath(sys, configPath).path ELSE configPath

\* line 63 of Generate: the error of os.UserHomeDir is dropped and home is
\* then the empty string
HomeDir(sys) == IF sys.home.ok THEN sys.home.path ELSE Path(FALSE, <<>>)

\* lines 64-65 of Generate
PlistPath(sys) ==
  Join(HomeDir(sys),
       <<"Library", "LaunchAgents", "com.daynightcycle.schedule.plist">>)

\* line 66 of Generate
LogPath(sys, configPath) ==
  Join(DirOf(AbsConfigPath(sys, configPath)), <<"logs">>)

\* the template of lines 11-44 executed on the data of lines 76-84
PlistData(sys, configPath, times, day) ==
  [ProgramArguments |->
     <<sys.binary.path, "--config", AbsConfigPath(sys, configPath), "auto">>,
   LogPath |-> LogPath(sys, configPath),
   at |-> PlistPath(sys)]
    @@ PlistOf(Fields(times.sunrise), Fields(times.sunset), day)

\* no descriptor
NoPlist == [done |-> FALSE]

\* Generate returns err ("" for nil) and leaves the plist file: "untouched"
\* (what was there before, if anything), "partial" (created, and the
\* template not written to its end) or "written"
Generated(err, state, p) == [err |-> err, state |-> state, plist |-> p]

\* Generate(configPath, sunrise, sunset) on the system sys; written is the
\* local day of the run
Generate(sys, configPath, times, day) ==
  IF ~sys.binary.found
    THEN Generated("getting executable path", "untouched", NoPlist)
  ELSE IF ~sys.binary.resolves
    THEN Generated("resolving symlinks", "untouched", NoPlist)
  ELSE IF ~sys.mkdirLaunchd
    THEN Generated("creating LaunchAgents directory", "untouched", NoPlist)
  ELSE IF ~sys.mkdirLogs
    THEN Generated("creating logs directory", "untouched", NoPlist)
  ELSE IF ~sys.create
    THEN Generated("creating plist file", "untouched", NoPlist)
  ELSE IF ~sys.execute
    THEN Generated("writing plist", "partial", NoPlist)
  ELSE Generated("", "written", PlistData(sys, configPath, times, day))

\* runSchedule(configPath) at clock, the configuration loaded
runSchedule(sys, configPath, config, clock) ==
  Generate(sys, configPath, TodaysTimes(config, clock),
           LocalDay(NowIn(config, clock)))

\* the machine install.sh runs on: $INSTALL_DIR is $HOME/.config/day-night-cycle
InstallDir == Path(TRUE, <<"Users", "me", ".config", "day-night-cycle">>)

InstallSystem ==
  [binary |-> [found |-> TRUE, resolves |-> TRUE,
               path |-> Join(InstallDir, <<"day-night-cycle">>)],
   cwd  |-> [ok |-> TRUE, path |-> Path(TRUE, <<"Users", "me">>)],
   home |-> [ok |-> TRUE, path |-> Path(TRUE, <<"Users", "me">>)],
   mkdirLaunchd |-> TRUE, mkdirLogs |-> TRUE, create |-> TRUE,
   execute |-> TRUE]

InstallConfigPath == Join(InstallDir, <<"config.yaml">>)

(***************************************************************************)
(* cmd/day-night-cycle/main.go: nextTransition, runStatus, runNext, main   *)
(***************************************************************************)
Transition(at, kind) == [at |-> at, kind |-> kind]

\* lines 148-150 of nextTransition: the sunrise computed for now + 24h with
\* the day offset applied (ApplyOffsets(next, time.Time{}), its second
\* result dropped)
TomorrowsSunrise(config, t) ==
  Add(CalculateTimes(config.lat, config.lon, Add(t, SecPerDay)).sunrise,
      config.dayOffset)

\* nextTransition(now, sunrise, sunset, loc)
nextTransition(config, t, times) ==
  IF t.sec < times.sunrise.sec THEN Transition(times.sunrise, "sunrise")
  ELSE IF t.sec < times.sunset.sec THEN Transition(times.sunset, "sunset")
  ELSE Transition(TomorrowsSunrise(config, t), "sunrise")

\* nextTransition with the second comparison inclusive
nextTransitionInclusive(config, t, times) ==
  IF t.sec < times.sunrise.sec THEN Transition(times.sunrise, "sunrise")
  ELSE IF t.sec <= times.sunset.sec THEN Transition(times.sunset, "sunset")
  ELSE Transition(TomorrowsSunrise(config, t), "sunrise")

\* what runStatus prints: the mode, the two instants, the next transition
StatusReport(t, times, isLight, next) ==
  [done |-> TRUE, command |-> "status", now |-> t,
   mode |-> IF isLight THEN "light" ELSE "dark",
   sunrise |-> times.sunrise, sunset |-> times.sunset,
   next |-> next.at, kind |-> next.kind]

StatusAt(config, t, times) ==
  StatusReport(t, times, IsLightAt(t, times), nextTransition(config, t, times))

\* runStatus(configPath) at clock, from line 167 on
runStatus(config, clock) ==
  StatusAt(config, NowIn(config, clock), TodaysTimes(config, clock))

\* what runNext prints
NextReport(t, times, next) ==
  [done |-> TRUE, command |-> "next", now |-> t,
   sunrise |-> times.sunrise, sunset |-> times.sunset,
   next |-> next.at, kind |-> next.kind]

NextAt(config, t, times) == NextReport(t, times, nextTransition(config, t, times))

\* runNext(configPath) at clock, from line 221 on
runNext(config, clock) ==
  NextAt(config, NowIn(config, clock), TodaysTimes(config, clock))

\* Generate was not called
NotGenerated == [err |-> "", state |-> "untouched", plist |-> NoPlist]
NoReport == [done |-> FALSE]

\* the outcome of a process: its exit status, the line on stderr, the
\* handlers it called, the environment it leaves, what Generate did, and
\* the report on stdout
Exited(status, err, handlers, e, generated, report) ==
  [exit |-> status, err |-> err, handlers |-> handlers, env |-> e,
   generated |-> generated, report |-> report]

\* os.Exit(1) after a line on stderr
Exit1(err, e) == Exited(1, err, <<>>, e, NotGenerated, NoReport)

\* a process that ran applyMode: a panic of a handler ends it with status 2
AppliedExit(applied) ==
  Exited(IF applied.panicked THEN 2 ELSE 0, "", applied.calls, applied.env,
         NotGenerated, NoReport)

\* lines 255-258 of runSchedule
GeneratedExit(generated, e) ==
  Exited(IF generated.err = "" THEN 0 ELSE 1, generated.err, <<>>, e,
         generated, NoReport)

ReportedExit(report, e) == Exited(0, "", <<>>, e, NotGenerated, report)

\* runMode(configPath, isLight): Load, then applyMode
mainMode(loaded, isLight, e) ==
  IF loaded.err # "" THEN Exit1(loaded.err, e)
  ELSE AppliedExit(applyMode(loaded.config, isLight, e))

\* what main's auto, status, next and schedule do from LoadLocation on
mainLocated(command, config, sys, configPath, e, clock) ==
  IF LoadLocation(config) # "" THEN Exit1(LoadLocation(config), e)
  ELSE IF command = "auto"
    THEN AppliedExit(runAuto(config, clock, clock, e).applied)
  ELSE IF command = "status" THEN ReportedExit(runStatus(config, clock), e)
  ELSE IF command = "next" THEN ReportedExit(runNext(config, clock), e)
  ELSE GeneratedExit(runSchedule(sys, configPath, config, clock), e)

\* the rest with Load's error ignored: the Config returned is used
mainLoadedUnchecked(command, loaded, sys, configPath, e, clock) ==
  mainLocated(command, loaded.config, sys, configPath, e, clock)

\* runAuto, runStatus, runNext, runSchedule: Load, then the rest
mainLoaded(command, loaded, sys, configPath, e, clock) ==
  IF loaded.err # "" THEN Exit1(loaded.err, e)
  ELSE mainLocated(command, loaded.config, sys, configPath, e, clock)

\* main() with the arguments args after the flags, the configuration file
\* `file` at configPath, on the system sys at clock
main(args, file, sys, configPath, e, clock) ==
  IF Len(args) < 1 THEN Exit1("usage", e)
  ELSE IF args[1] \in {"auto", "status", "next", "schedule"}
    THEN mainLoaded(args[1], Load(file), sys, configPath, e, clock)
  ELSE IF args[1] = "light" THEN mainMode(Load(file), TRUE, e)
  ELSE IF args[1] = "dark" THEN mainMode(Load(file), FALSE, e)
  ELSE IF args[1] = "version"
    THEN ReportedExit([done |-> TRUE, command |-> "version"], e)
  ELSE Exit1("unknown command", e)

(***************************************************************************)
(* State.  The pure functions of solar.go are exercised by three harnesses *)
(* (an input drawn by Init, one action that calls the function); the       *)
(* commands of main.go act on the clock, the configuration and the launchd *)
(* plist.                                                                   *)
(***************************************************************************)
VARIABLES
  jIn, jOut,     \* julianDay: argument, result
  hIn, hOut,     \* hourAngleFromZenith: arguments, result
  tIn, tOut,     \* lines 49-62 of timeOfTransit: arguments, result
  sIn, sOut,     \* CalculateTimes: arguments, result
  mIn, mOut,     \* minutesToTime: arguments, result
  calls,         \* CalculateTimes: the calls of one process, in order
  cfg,           \* the configuration file: location, offsets, plugins
  env,           \* what the handlers act on: files, directories, osascript
  now,           \* the clock, in Unix seconds
  plist,         \* the launchd job written by Generate and loaded
  last           \* the last run of the program: command and outcome

vars ==
  <<jIn, jOut, hIn, hOut, tIn, tOut, sIn, sOut, mIn, mOut, calls, cfg, env, now,
    plist, last>>

solarVars == <<jIn, jOut, hIn, hOut, tIn, tOut, sIn, sOut, mIn, mOut, calls>>

NotCalled == [done |-> FALSE]

JulianIdle    == jIn = NotCalled /\ jOut = NotCalled
HourAngleIdle == hIn = NotCalled /\ hOut = NotCalled
TransitIdle   == tIn = NotCalled /\ tOut = NotCalled
SolarIdle     == sIn = NotCalled /\ sOut = NotCalled /\ calls = <<>>
MinutesIdle   == mIn = NotCalled /\ mOut = NotCalled
AppIdle ==
  /\ cfg = NotCalled /\ env = NotCalled /\ now = 0
  /\ plist = NotCalled /\ last = NotCalled

(***************************************************************************)
(* Bounds of the input grids.                                              *)
(***************************************************************************)
LatSteps == 12
DecSteps == 8
LonSteps == 8
HaSteps  == 12
EqSteps  == 4
MaxPlugins == 2

\* n+1 evenly spaced values from lo to hi
Grid(lo, hi, n) == { lo + (((hi - lo) \div n) * k) : k \in 0..(n - 1) } \cup {hi}

Latitudes   == Grid(Deg(-90), Deg(90), LatSteps)
Longitudes  == Grid(Deg(-180), Deg(180), LonSteps)

(***************************************************************************)
(* hourAngleFromZenith on a grid of latitudes, declinations and zeniths.   *)
(***************************************************************************)
Declinations == Grid(Deg(-24), Deg(24), DecSteps)
Zeniths      == {0, Deg(60), Deg(90), sunriseZenith, Deg(96), Deg(180)}

HourAngleInit ==
  /\ hIn \in [done : {TRUE}, lat : Latitudes, declination : Declinations,
              zenith : Zeniths]
  /\ hOut = NotCalled
  /\ TransitIdle /\ SolarIdle /\ AppIdle /\ JulianIdle /\ MinutesIdle

HourAngleCall ==
  /\ hIn.done /\ ~hOut.done
  /\ hOut' = [done |-> TRUE,
              num  |-> HourAngleNum(hIn.lat, hIn.declination, hIn.zenith),
              den  |-> HourAngleDen(hIn.lat, hIn.declination),
              ret  |-> hourAngleFromZenith(hIn.lat, hIn.declination, hIn.zenith)]
  /\ UNCHANGED <<jIn, jOut, hIn, tIn, tOut, sIn, sOut, calls, cfg, env, now, plist, last, mIn,
                mOut>>

SpecHourAngle == HourAngleInit /\ [][HourAngleCall]_vars

\* C7: hourAngleFromZenith returns a value in [0, 180] degrees for every
\* latitude, declination and zenith: exactly 0 when cosH = num/den is greater
\* than 1, exactly 180 when cosH is less than -1, and otherwise the angle
\* whose cosine is cosH (to the resolution of the fixed point: 1e-5 degree,
\* with cosines compared to 4e-7), cosH = 1 giving 0 and cosH = -1 giving 180.
C7_HourAngleClamped ==
  hOut.done =>
    /\ hOut.ret >= 0 /\ hOut.ret <= Deg(180)
    /\ (hOut.num > hOut.den) => hOut.ret = 0
    /\ (hOut.num < -hOut.den) => hOut.ret = Deg(180)
    /\ (hOut.den > 0 /\ hOut.num <= hOut.den /\ hOut.num >= -hOut.den) =>
         /\ Abs(Mul8(Cos8(hOut.ret), hOut.den) - hOut.num) <= 40
         /\ (hOut.num = hOut.den) => hOut.ret = 0
         /\ (hOut.num = -hOut.den) => hOut.ret = Deg(180)

\* the acos branch: a mid-latitude sunrise hour angle strictly inside (0, 180)
C7_Witness ==
  /\ hOut.done
  /\ hIn.zenith = sunriseZenith
  /\ hOut.num < hOut.den /\ hOut.num > -hOut.den
  /\ hOut.ret > 0 /\ hOut.ret < Deg(180)

(***************************************************************************)
(* timeOfTransit's arithmetic on a grid of longitudes, hour angles and     *)
(* equation-of-time values (the equation of time stays within about 17     *)
(* minutes of zero).                                                       *)
(***************************************************************************)
HourAngles == Grid(0, Deg(180), HaSteps)
EqTimes    == Grid(-Minute5(17), Minute5(17), EqSteps)

TransitInit ==
  /\ tIn \in [done : {TRUE}, lon : Longitudes, hourAngle : HourAngles,
              eqTime : EqTimes, rising : BOOLEAN]
  /\ tOut = NotCalled
  /\ HourAngleIdle /\ SolarIdle /\ AppIdle /\ JulianIdle /\ MinutesIdle

TransitCall ==
  /\ tIn.done /\ ~tOut.done
  /\ tOut' = [done |-> TRUE,
              ret  |-> TransitMinutes(tIn.lon, tIn.hourAngle, tIn.eqTime,
                                      tIn.rising)]
  /\ UNCHANGED <<jIn, jOut, hIn, hOut, tIn, sIn, sOut, calls, cfg, env, now, plist, last, mIn,
                mOut>>

SpecTransit == TransitInit /\ [][TransitCall]_vars

\* the offset of the call in tIn, recomputed: 4 * (-lon -/+ hourAngle) - eqTime
OffsetOfCall ==
  4 * (-tIn.lon - (IF tIn.rising THEN tIn.hourAngle ELSE -tIn.hourAngle))
    - tIn.eqTime

\* C9 as amended: timeOfTransit returns 720 + offset, with 1440 added exactly
\* when offset < -720; the result is never negative, but it is below 1440
\* only when offset < 720: a setting at a western longitude returns up to
\* about 2160 minutes, which is in the next UTC day.
C9_MidnightAdjustment ==
  tOut.done =>
    /\ tOut.ret = Minute5(720) + OffsetOfCall
                    + (IF OffsetOfCall < -Minute5(720) THEN Minute5(1440) ELSE 0)
    /\ tOut.ret >= 0
    /\ tOut.ret < Minute5(1440) <=> OffsetOfCall < Minute5(720)
    /\ tOut.ret < Minute5(2160) + Minute5(18)

\* a call where the adjustment was made
C9_Witness ==
  /\ tOut.done
  /\ OffsetOfCall < -Minute5(720)
  /\ tOut.ret = OffsetOfCall + Minute5(2160)

\* C9 as stated: 1440 is added exactly when offset < -720 and the returned
\* value satisfies 0 <= minutesUTC < 1440.
C9_AsStated ==
  tOut.done =>
    /\ tOut.ret = Minute5(720) + OffsetOfCall
                    + (IF OffsetOfCall < -Minute5(720) THEN Minute5(1440) ELSE 0)
    /\ tOut.ret >= 0 /\ tOut.ret < Minute5(1440)

(***************************************************************************)
(* CalculateTimes on a grid of locations, dates, times of day and zones.   *)
(***************************************************************************)
SolarLatitudes == {Deg(-70), Deg(-37), 0, Deg(40), Deg(70)}

\* 2024: the equinoxes and solstices
SolarDates == {<<2024, 3, 20>>, <<2024, 6, 21>>, <<2024, 9, 22>>, <<2024, 12, 21>>}
SolarHours == {9, 21}

\* the zones a place at this longitude keeps: the nominal one (15 degrees per
\* hour) and one hour ahead of it (daylight saving)
NominalZone(lon) == ((lon + Deg(360) + (Deg(15) \div 2)) \div Deg(15)) - 24
ZonesAt(lon) == { NominalZone(lon) * 3600, (NominalZone(lon) + 1) * 3600 }

\* the instant at which the wall clock of zone `off` shows the date and hour
LocalTime(date, hour, off) ==
  [sec |-> DateUTC(date[1], date[2], date[3], hour, 0, 0).sec - off, off |-> off]

SolarInputsAt(lon) ==
  { [done |-> TRUE, lat |-> lat, lon |-> lon, t |-> LocalTime(d, h, off)] :
      lat \in SolarLatitudes, d \in SolarDates, h \in SolarHours,
      off \in ZonesAt(lon) }

SolarInputs == UNION { SolarInputsAt(lon) : lon \in Longitudes }

SolarInit ==
  /\ sIn \in SolarInputs
  /\ sOut = NotCalled
  /\ calls = <<>>
  /\ HourAngleIdle /\ TransitIdle /\ AppIdle /\ JulianIdle /\ MinutesIdle

\* what the harness records of a call
Returned(r) ==
  [done |-> TRUE, sunrise |-> r.sunrise, sunset |-> r.sunset,
   passes |-> r.passes]

CalculateTimesCall ==
  /\ sIn.done /\ ~sOut.done
  /\ sOut' = Returned(CalculateTimesTrace(sIn.lat, sIn.lon, sIn.t))
  /\ UNCHANGED <<jIn, jOut, hIn, hOut, tIn, tOut, sIn, calls, cfg, env, now, plist, last, mIn,
                mOut>>

SpecSolar == SolarInit /\ [][CalculateTimesCall]_vars

\* the hour angle is strictly between 0 and 180 degrees in all four
\* timeOfTransit calls
MidLatitudeCall ==
  \A d \in {sOut.passes.sunrise1, sOut.passes.sunset1,
             sOut.passes.sunrise2, sOut.passes.sunset2} :
    d.hourAngle > 0 /\ d.hourAngle < Deg(180)

\* hourAngleFromZenith returned exactly 180 in all four timeOfTransit calls
PolarDayCall ==
  \A d \in {sOut.passes.sunrise1, sOut.passes.sunset1,
             sOut.passes.sunrise2, sOut.passes.sunset2} :
    d.hourAngle = Deg(180)

\* 00:00 UTC of the calendar day minutesToTime builds on (the date of t in
\* t's zone), in Unix seconds
BaseMidnight == LocalDay(sIn.t) * SecPerDay

\* local solar noon, 720 - 4*longitude - equationOfTime minutes after that
\* midnight, in Unix seconds
SolarNoon ==
  BaseMidnight
    + (((Minute5(720) - 4 * sIn.lon - sOut.passes.sunrise1.eqTime) * 6)
         \div 10^4)

\* C1 as stated: for a mid-latitude call, the sunrise instant is strictly
\* earlier than the sunset instant of the same call, with local solar noon
\* between them.
C1_AsStated ==
  (sOut.done /\ MidLatitudeCall) =>
    /\ sOut.sunrise.sec < sOut.sunset.sec
    /\ sOut.sunrise.sec < SolarNoon
    /\ SolarNoon < sOut.sunset.sec

\* C2 as stated: both instants returned by CalculateTimes(lat, lon, t) fall
\* on the calendar day of t in t's zone, and carry t's zone.
C2_AsStated ==
  sOut.done =>
    /\ LocalDay(sOut.sunrise) = LocalDay(sIn.t)
    /\ LocalDay(sOut.sunset) = LocalDay(sIn.t)
    /\ sOut.sunrise.off = sIn.t.off
    /\ sOut.sunset.off = sIn.t.off

\* sunset minutesUTC - sunrise minutesUTC of the first and of the second pass
PassOneSpan == sOut.passes.sunset1.minutes - sOut.passes.sunrise1.minutes
PassTwoSpan == sOut.passes.sunset2.minutes - sOut.passes.sunrise2.minutes

EquinoxAtEquator ==
  /\ sIn.lat = 0
  /\ Abs(sOut.passes.sunrise1.declination) < Deg(1)

\* sunset - sunrise of the returned instants, in seconds
DayLength == sOut.sunset.sec - sOut.sunrise.sec

\* C10 as amended: at the equator near an equinox the day length returned
\* by CalculateTimes is within 2 minutes of 12h06m40s (43600 s), the zenith
\* of 90.8333 degrees adding about 3m20s at each end; where the sunrise got
\* the midnight adjustment and the sunset did not, the returned sunrise is a
\* day late and the difference is that value less 24 hours.
C10_EquinoxDayLength ==
  (sOut.done /\ EquinoxAtEquator) =>
    IF sOut.passes.sunrise2.offset < -Minute5(720)
         /\ sOut.passes.sunset2.offset >= -Minute5(720)
    THEN Abs(DayLength + SecPerDay - 43600) <= 120
    ELSE Abs(DayLength - 43600) <= 120

\* the equator at an equinox on the prime meridian: a day of about 12h06m
C10_Witness ==
  /\ sOut.done /\ EquinoxAtEquator
  /\ sIn.lon = 0
  /\ DayLength > 43200 + 120

\* C10 as stated: at the equator near an equinox the day length is within
\* 2 minutes of 12h00m.
C10_AsStated ==
  (sOut.done /\ EquinoxAtEquator) => Abs(DayLength - 43200) <= 120

(***************************************************************************)
(* The commands `light` and `dark` (runMode, applyMode) on every plugin    *)
(* list of up to MaxPlugins entries and a range of environments.           *)
(***************************************************************************)
EntryWith(name, enabled, day, night, custom) ==
  [name |-> name, enabled |-> enabled, day |-> day, night |-> night,
   custom |-> custom]

Entry(name, enabled, day, night) ==
  EntryWith(name, enabled, day, night, NoCustom)

\* "myapp" is a name the Registry does not hold
PluginEntries ==
  { Entry(n, e, "", "") : n \in {"iterm2", "cursor", "pycharm", "myapp"},
                          e \in BOOLEAN }
    \cup { Entry("iterm2", e, "Solarized Light", "Solarized Dark") :
             e \in BOOLEAN }

PluginLists == UNION { [1..n -> PluginEntries] : n \in 0..MaxPlugins }

Dir(name)  == [name |-> name, isDir |-> TRUE]
File(name) == [name |-> name, isDir |-> FALSE]

PyCharm2025 ==
  <<"P", "y", "C", "h", "a", "r", "m", "2", "0", "2", "5", ".", "3">>
PyCharmCE2025 ==
  <<"P", "y", "C", "h", "a", "r", "m", "C", "E", "2", "0", "2", "5", ".", "1">>
GoLand2025 == <<"G", "o", "L", "a", "n", "d", "2", "0", "2", "5", ".", "1">>
Toolbox    == <<"T", "o", "o", "l", "b", "o", "x">>
Crl        == <<"c", "r", "l">>

\* ~/Library/Application Support/JetBrains as os.ReadDir gives it, sorted
\* by name
JetBrainsDirs ==
  { [exists |-> FALSE, entries |-> <<>>] }
    \cup { [exists |-> TRUE, entries |-> l] :
             l \in { <<>>,
                     <<Dir(GoLand2025), Dir(PyCharm2025), Dir(Toolbox)>>,
                     <<Dir(GoLand2025), Dir(PyCharmCE2025)>>,
                     <<Dir(GoLand2025), Dir(Toolbox), Dir(Crl)>>,
                     <<File(Toolbox), Dir(Crl)>> } }

ObjectFile(writable) ==
  [kind |-> "object", writable |-> writable,
   text |-> Text(<< <<"editor.fontSize", "14">> >>, 4)]

OtherFile(kind) ==
  [kind |-> kind, writable |-> TRUE, text |-> Text(<<>>, 0)]

SettingsFiles ==
  { ObjectFile(w) : w \in BOOLEAN }
    \cup { OtherFile(k) : k \in {"missing", "invalid", "null"} }

Environments ==
  [osascript : BOOLEAN, cursorSettings : SettingsFiles,
   claudeSettings : {ObjectFile(TRUE)},
   jetbrains : JetBrainsDirs, laf : {[dir |-> 0]}]

\* Walla Walla, Washington, in winter time
DefaultLocation ==
  [lat |-> 4606450, lon |-> -11834300, off |-> -8 * 3600,
   dayOffset |-> 0, nightOffset |-> 0]

Config(location, plugins) ==
  [done |-> TRUE, lat |-> location.lat, lon |-> location.lon,
   off |-> location.off, dayOffset |-> location.dayOffset,
   nightOffset |-> location.nightOffset, plugins |-> plugins]

ModeInit ==
  /\ cfg \in { Config(DefaultLocation, l) : l \in PluginLists }
  /\ env \in Environments
  /\ now = DateUTC(2024, 6, 21, 20, 0, 0).sec
  /\ plist = NotCalled
  /\ last = NotCalled
  /\ HourAngleIdle /\ TransitIdle /\ SolarIdle /\ JulianIdle /\ MinutesIdle

\* what is kept of a run of runMode
ModeRun(command, isLight, applied) ==
  [done |-> TRUE, command |-> command, isLight |-> isLight, applied |-> applied]

\* runMode(configPath, isLight)
runMode(command, isLight) ==
  /\ ~last.done
  /\ last' = ModeRun(command, isLight, applyMode(cfg, isLight, env))
  /\ env' = last'.applied.env
  /\ UNCHANGED <<cfg, now, plist>>
  /\ UNCHANGED solarVars

RunLight == runMode("light", TRUE)
RunDark  == runMode("dark", FALSE)

SpecMode == ModeInit /\ [][RunLight \/ RunDark]_vars

\* the positions of the entries applyMode is to call: enabled and registered
Callable ==
  { i \in 1..Len(cfg.plugins) :
      cfg.plugins[i].enabled /\ cfg.plugins[i].name \in Registry }

\* C6 as stated: whatever the handlers' outcomes, applyMode invokes every
\* enabled, registered plugin, reports each one's success or failure, and
\* reaches the final "Completed" summary.
C6_AsStated ==
  last.done =>
    /\ last.applied.completed
    /\ Len(last.applied.calls) = Cardinality(Callable)
    /\ last.applied.total = Cardinality(Callable)
    /\ \A i \in Callable :
          \E k \in 1..Len(last.applied.lines) :
            /\ last.applied.lines[k].name = cfg.plugins[i].name
            /\ last.applied.lines[k].result \in {"ok", "err"}

\* the configuration without the entries whose name the Registry lacks
IsRegistered(entry) == entry.name \in Registry
RegisteredOnly(config) ==
  [config EXCEPT !.plugins = SelectSeq(@, IsRegistered)]

\* what a run of applyMode did, the printed lines apart: the handlers
\* invoked, the counters, the files, and how it ended (completed: exit
\* status 0; panicked: the run-time's exit status 2)
Effect(applied) ==
  [calls |-> applied.calls, success |-> applied.success,
   total |-> applied.total, env |-> applied.env,
   completed |-> applied.completed, panicked |-> applied.panicked]

\* the lines printed for handlers that were invoked
HandlerLines(applied) ==
  SelectSeq(applied.lines, LAMBDA l : l.result # "unknown plugin")

\* C21: an enabled entry whose name is not in the Registry is skipped: a
\* run of applyMode invokes the same handlers in the same order, ends with
\* the same counters, files and exit status and prints the same lines for
\* them as a run on the configuration without such entries; no handler is
\* invoked under the unknown name.
C21_UnknownSkipped ==
  [][(~last.done /\ last'.done) =>
       /\ Effect(last'.applied)
            = Effect(applyMode(RegisteredOnly(cfg), last'.isLight, env))
       /\ HandlerLines(last'.applied)
            = applyMode(RegisteredOnly(cfg), last'.isLight, env).lines
       /\ \A k \in 1..Len(last'.applied.calls) :
            last'.applied.calls[k].name \in Registry]_vars

\* an unknown enabled entry first, then a registered one that was invoked
C21_Witness ==
  /\ last.done
  /\ Len(cfg.plugins) = 2
  /\ cfg.plugins[1].enabled /\ cfg.plugins[1].name \notin Registry
  /\ cfg.plugins[2].enabled /\ cfg.plugins[2].name = "cursor"
  /\ last.applied.total = 1
  /\ Len(last.applied.calls) = 1 /\ last.applied.calls[1].name = "cursor"
  /\ last.applied.lines[1].result = "unknown plugin"
  /\ last.applied.completed

\* the last handler a run of `light` or `dark` called
LastCall == last.applied.calls[Len(last.applied.calls)]

\* the runs whose last handler call is PyCharm on a JetBrains directory
\* that could be listed
PyCharmListed ==
  /\ last.done
  /\ last.applied.calls # <<>>
  /\ LastCall.name = "pycharm"
  /\ env.jetbrains.exists

\* the positions of the listing that hold a directory whose name starts
\* with "PyCharm"
PyCharmDirs ==
  { i \in 1..Len(env.jetbrains.entries) :
      /\ env.jetbrains.entries[i].isDir
      /\ Len(env.jetbrains.entries[i].name) >= 7
      /\ SubSeq(env.jetbrains.entries[i].name, 1, 7) = PyCharmPrefix }

\* C25 as stated: for every listing of the JetBrains directory PyCharm
\* returns and never faults: it writes laf.xml under the first directory
\* whose name starts with "PyCharm", or returns the error "PyCharm
\* configuration directory not found", also when the listing holds a
\* directory with a name of 7 or 8 characters that does not start with
\* "PyCharm".
C25_AsStated ==
  PyCharmListed =>
    /\ ~last.applied.panicked
    /\ PyCharmDirs # {} =>
         /\ env.laf.dir \in PyCharmDirs
         /\ \A i \in PyCharmDirs : env.laf.dir <= i
    /\ PyCharmDirs = {} => env.laf.dir = 0

\* the entries applyMode is to call, in the order of the configuration
IsCallable(entry) == entry.enabled /\ entry.name \in Registry
CallableEntries == SelectSeq(cfg.plugins, IsCallable)

\* the lines printed for handlers that returned nil
IsSuccessLine(l) == l.result = "ok"

\* C26 as stated: applyMode invokes each enabled, registered entry exactly
\* once, in configuration order, with IsLight equal to the requested mode,
\* and no disabled entry; 0 <= success <= total <= the number of enabled
\* entries, total is the number of handlers invoked and success the number
\* that returned no error.
C26_AsStated ==
  last.done =>
    /\ Len(last.applied.calls) = Len(CallableEntries)
    /\ \A k \in 1..Len(last.applied.calls) :
         /\ k <= Len(CallableEntries)
         /\ last.applied.calls[k].name = CallableEntries[k].name
         /\ last.applied.calls[k].IsLight = last.isLight
    /\ 0 <= last.applied.success
    /\ last.applied.success <= last.applied.total
    /\ last.applied.total <= Len(SelectSeq(cfg.plugins, LAMBDA e : e.enabled))
    /\ last.applied.total = Len(last.applied.calls)
    /\ last.applied.success
         = Len(SelectSeq(last.applied.lines, IsSuccessLine))

(***************************************************************************)
(* The command `auto` (runAuto) at instants around the day's sunrise and   *)
(* sunset, for a set of locations, zones and offsets.                      *)
(***************************************************************************)
Location(lat, lon, off) ==
  [lat |-> lat, lon |-> lon, off |-> off, dayOffset |-> 0, nightOffset |-> 0]

\* Walla Walla, New York, London, Tokyo, Tromso: each in its standard and
\* its summer zone
Locations ==
  UNION { { Location(l[1], l[2], l[3] * 3600),
            Location(l[1], l[2], (l[3] + 1) * 3600) } :
          l \in { <<4606450, -11834300, -8>>, <<4071000, -7401000, -5>>,
                  <<5150000, -13000, 0>>, <<3568000, 13970000, 9>>,
                  <<6965000, 1896000, 1>> } }

\* dayOffset and nightOffset, in seconds
OffsetPairs == { <<0, 0>>, <<1800, -900>> }

WithOffsets(location, o) ==
  [location EXCEPT !.dayOffset = o[1], !.nightOffset = o[2]]

AutoPluginLists ==
  { <<>>,
    <<Entry("iterm2", TRUE, "Solarized Light", "Solarized Dark"),
      Entry("pycharm", FALSE, "", ""),
      Entry("cursor", TRUE, "", "")>> }

AutoConfigs ==
  { Config(WithOffsets(l, o), p) :
      l \in Locations, o \in OffsetPairs, p \in AutoPluginLists }

AutoEnvironment ==
  [osascript |-> TRUE, cursorSettings |-> ObjectFile(TRUE),
   claudeSettings |-> ObjectFile(TRUE),
   jetbrains |-> [exists |-> FALSE, entries |-> <<>>], laf |-> [dir |-> 0]]

AutoDates == { <<2024, 3, 20>>, <<2024, 6, 21>> }

\* the seconds either side of an instant
Around(sec) == { sec - 1, sec, sec + 1 }

\* the clock readings tried for a configuration and a date: the small
\* hours, noon, late evening, and the seconds around the two transitions.
\* The computed transitions move by some seconds with the time of the run,
\* so they are computed again for a run at the first estimate.
ClockAround(config, noon, estimate) ==
  { noon - 41400, noon, noon + 41400 }
    \cup Around(TodaysTimes(config, estimate.sunrise.sec).sunrise.sec)
    \cup Around(TodaysTimes(config, estimate.sunset.sec).sunset.sec)

ClocksOfDay(config, noon) ==
  ClockAround(config, noon, TodaysTimes(config, noon))

AutoClocks(config, date) ==
  ClocksOfDay(config, LocalTime(date, 12, config.off).sec)

\* the time runAuto takes between its two readings of the clock, in seconds
AutoDelays == {0, 1}

AutoInit ==
  /\ cfg \in AutoConfigs
  /\ env = AutoEnvironment
  /\ now \in UNION { AutoClocks(cfg, d) : d \in AutoDates }
  /\ plist = NotCalled
  /\ last = NotCalled
  /\ HourAngleIdle /\ TransitIdle /\ SolarIdle /\ JulianIdle /\ MinutesIdle

RunAuto ==
  /\ ~last.done
  /\ \E d \in AutoDelays :
       /\ now' = now + d
       /\ last' = runAuto(cfg, now, now + d, env)
  /\ env' = last'.applied.env
  /\ UNCHANGED <<cfg, plist>>
  /\ UNCHANGED solarVars

SpecAuto == AutoInit /\ [][RunAuto]_vars

\* C5: `auto` selects light mode exactly when the current instant lies
\* strictly between the offset-adjusted sunrise and sunset computed for
\* today (sunrise < now < sunset), and the selected mode is the one passed
\* to every plugin that is called.
C5_AutoSelectsMode ==
  (last.done /\ last.command = "auto") =>
    /\ last.sunrise.sec
         = CalculateTimes(cfg.lat, cfg.lon, NowIn(cfg, last.started)).sunrise.sec
             + cfg.dayOffset
    /\ last.sunset.sec
         = CalculateTimes(cfg.lat, cfg.lon, NowIn(cfg, last.started)).sunset.sec
             + cfg.nightOffset
    /\ last.isLight <=>
         (last.sunrise.sec < last.now.sec /\ last.now.sec < last.sunset.sec)
    /\ \A k \in 1..Len(last.applied.calls) :
         last.applied.calls[k].IsLight = last.isLight

\* light mode selected between a sunrise and a sunset moved by the offsets,
\* and passed to two plugins
C5_Witness ==
  /\ last.done /\ last.command = "auto"
  /\ cfg.dayOffset # 0
  /\ last.isLight
  /\ Len(last.applied.calls) = 2
  /\ last.applied.calls[2].IsLight

(***************************************************************************)
(* launchd: install.sh runs `schedule` once and loads the plist; from then *)
(* on launchd starts `auto` whenever the wall clock reaches one of the two *)
(* StartCalendarInterval entries.  The machine's zone is the configured    *)
(* one.                                                                    *)
(***************************************************************************)
MaxDays == 3

\* seconds from the minute launchd fires at to runAuto's reading of the
\* clock
LaunchDelays == {0, 2}

LaunchdConfigs ==
  { Config(l, <<Entry("iterm2", TRUE, "Solarized Light", "Solarized Dark")>>) :
      l \in Locations \cup { WithOffsets(k, <<1800, -900>>) : k \in Locations } }

LaunchdInit ==
  /\ cfg \in LaunchdConfigs
  /\ env = AutoEnvironment
  /\ now \in { LocalTime(d, h, cfg.off).sec : d \in AutoDates, h \in {1, 13} }
  /\ plist = NotCalled
  /\ last = NotCalled
  /\ HourAngleIdle /\ TransitIdle /\ SolarIdle /\ JulianIdle /\ MinutesIdle

\* install.sh, lines 132-151: `schedule`, then launchctl load
Install ==
  /\ ~plist.done
  /\ plist' = runSchedule(InstallSystem, InstallConfigPath, cfg, now).plist
  /\ last' = [done |-> TRUE, command |-> "schedule"]
  /\ UNCHANGED <<cfg, env, now>>
  /\ UNCHANGED solarVars

\* the instant the wall clock of the zone shows hour:minute:00 on a day
WallClock(day, hour, minute, off) ==
  day * SecPerDay + hour * 3600 + minute * 60 - off

\* the firings of the two entries today and on the following day
Firings(p, day, off) ==
  { [at |-> WallClock(d, p.SunriseHour, p.SunriseMinute, off),
     entry |-> "sunrise"] : d \in {day, day + 1} }
    \cup { [at |-> WallClock(d, p.SunsetHour, p.SunsetMinute, off),
             entry |-> "sunset"] : d \in {day, day + 1} }

\* the first firing after the instant `clock`
NextFiring(p, clock, off) ==
  CHOOSE f \in Firings(p, (clock + off) \div SecPerDay, off) :
    /\ f.at > clock
    /\ \A g \in Firings(p, (clock + off) \div SecPerDay, off) :
         g.at > clock => f.at <= g.at

\* launchd starts `auto` at firing f; runAuto reads the clock d seconds on
Fired(f, d) ==
  /\ (f.at + cfg.off) \div SecPerDay <= plist.written + MaxDays
  /\ now' = f.at + d
  /\ last' = [runAuto(cfg, f.at + d, f.at + d, env) EXCEPT !.command = "auto"]
               @@ [entry |-> f.entry, fired |-> f.at]
  /\ env' = last'.applied.env

LaunchdFire ==
  /\ plist.done
  /\ \E d \in LaunchDelays : Fired(NextFiring(plist, now, cfg.off), d)
  /\ UNCHANGED <<cfg, plist>>
  /\ UNCHANGED solarVars

SpecLaunchd == LaunchdInit /\ [][Install \/ LaunchdFire]_vars

\* C3 as stated: whenever the launchd job fires `auto` at the scheduled
\* sunrise Hour:Minute, runAuto applies light mode, and whenever it fires
\* at the scheduled sunset Hour:Minute, runAuto applies dark mode.
C3_AsStated ==
  (last.done /\ last.command = "auto") =>
    /\ (last.entry = "sunrise") => last.isLight
    /\ (last.entry = "sunset") => ~last.isLight

\* hour:minute as a minute of the day
MinuteOfDay(hour, minute) == hour * 60 + minute

MinuteOfDayAt(t) == ((t.sec + t.off) % SecPerDay) \div 60

\* C4 as stated: on every day after installation the trigger times held in
\* the launchd schedule are that day's computed sunrise and sunset (hour,
\* minute); a difference of one minute is let pass, the computed second
\* depending slightly on the time of day of the run.
C4_AsStated ==
  (last.done /\ last.command = "auto"
     /\ LocalDay(last.now) > plist.written) =>
    /\ Abs(MinuteOfDay(plist.SunriseHour, plist.SunriseMinute)
             - MinuteOfDayAt(last.sunrise)) <= 1
    /\ Abs(MinuteOfDay(plist.SunsetHour, plist.SunsetMinute)
             - MinuteOfDayAt(last.sunset)) <= 1

\* offset as line 55 computes it from the locals d of one timeOfTransit
\* call, the hour angle entering with the sign given
OffsetWith(d, sign) == 4 * (-sIn.lon - sign * d.hourAngle) - d.eqTime

\* C17 as amended: in timeOfTransit the solved hour angle is kept positive
\* for sunrise and negated for sunset before
\* offset = (-longitude - hourAngle) * 4 - equationOfTime is computed, in
\* both passes.
C17_HourAngleSign ==
  sOut.done =>
    /\ \A d \in {sOut.passes.sunrise1, sOut.passes.sunrise2} :
         d.offset = OffsetWith(d, 1)
    /\ \A d \in {sOut.passes.sunset1, sOut.passes.sunset2} :
         d.offset = OffsetWith(d, -1)

\* a call with a sunrise and a sunset: the rising offset is the smaller
C17_Witness ==
  /\ sOut.done /\ MidLatitudeCall
  /\ sOut.passes.sunrise1.offset = OffsetWith(sOut.passes.sunrise1, 1)
  /\ sOut.passes.sunset1.offset = OffsetWith(sOut.passes.sunset1, -1)
  /\ sOut.passes.sunrise1.offset < sOut.passes.sunset1.offset

\* C17 as stated: the solved hour angle is negated for sunrise and kept
\* positive for sunset before the offset is computed.
C17_AsStated ==
  sOut.done =>
    /\ \A d \in {sOut.passes.sunrise1, sOut.passes.sunrise2} :
         d.offset = OffsetWith(d, -1)
    /\ \A d \in {sOut.passes.sunset1, sOut.passes.sunset2} :
         d.offset = OffsetWith(d, 1)

\* timeOfTransit for the call in sIn, at Julian Day jd
TransitOfCall(jd, rising) ==
  TransitDetail(jd, sIn.lat, sIn.lon, sunriseZenith, rising)

\* C19: a call of CalculateTimes makes four timeOfTransit evaluations, two
\* for each event: the first at the Julian Day of the input, the second at
\* that Julian Day plus the same event's first minutesUTC / 1440; each
\* returned instant is minutesToTime of its event's second value.
C19_TwoPasses ==
  sOut.done =>
    /\ DOMAIN sOut.passes = {"jd", "sunrise1", "sunset1", "sunrise2", "sunset2"}
    /\ sOut.passes.jd = julianDay(sIn.t)
    /\ sOut.passes.sunrise1 = TransitOfCall(sOut.passes.jd, TRUE)
    /\ sOut.passes.sunset1 = TransitOfCall(sOut.passes.jd, FALSE)
    /\ sOut.passes.sunrise2 =
         TransitOfCall(JDPlusMinutes(sOut.passes.jd,
                                     sOut.passes.sunrise1.minutes), TRUE)
    /\ sOut.passes.sunset2 =
         TransitOfCall(JDPlusMinutes(sOut.passes.jd,
                                     sOut.passes.sunset1.minutes), FALSE)
    /\ sOut.sunrise = minutesToTime(sIn.t, sOut.passes.sunrise2.minutes)
    /\ sOut.sunset = minutesToTime(sIn.t, sOut.passes.sunset2.minutes)

\* a call where the second pass moved both values, so that an instant built
\* from the first pass or from the other event's value would differ
C19_Witness ==
  /\ sOut.done /\ MidLatitudeCall
  /\ sOut.sunrise # minutesToTime(sIn.t, sOut.passes.sunrise1.minutes)
  /\ sOut.sunset # minutesToTime(sIn.t, sOut.passes.sunset1.minutes)
  /\ sOut.passes.sunrise2 #
       TransitOfCall(JDPlusMinutes(sOut.passes.jd,
                                   sOut.passes.sunset1.minutes), TRUE)
  /\ sOut.sunrise = minutesToTime(sIn.t, sOut.passes.sunrise2.minutes)

(***************************************************************************)
(* CalculateTimes called repeatedly by one process.  solar.go declares only *)
(* constants and functions: a call has its three arguments and nothing     *)
(* else to read, and its two results and nothing else to write.  `calls`   *)
(* is the history of the calls, which the program does not keep.           *)
(***************************************************************************)
MaxCalls == 3

CallPlaces == { <<Deg(40), -Deg(75)>>, <<-Deg(37), Deg(145)>> }

CallInstants ==
  { LocalTime(<<2024, 6, 21>>, 9, 0), LocalTime(<<2024, 6, 21>>, 21, 0),
    LocalTime(<<2024, 12, 21>>, 9, 0),
    LocalTime(<<2024, 6, 21>>, 21, -5 * 3600) }

CallInputs ==
  { [lat |-> p[1], lon |-> p[2], t |-> t] : p \in CallPlaces, t \in CallInstants }

CallsInit ==
  /\ calls = <<>>
  /\ sIn = NotCalled /\ sOut = NotCalled
  /\ HourAngleIdle /\ TransitIdle /\ AppIdle /\ JulianIdle /\ MinutesIdle

\* a call whose Julian Day is the one the call before it computed, as if
\* line 20 read jd from a package variable written at the end of each call
CalculateTimesRetained ==
  /\ Len(calls) < MaxCalls
  /\ \E in \in CallInputs :
       calls' = Append(calls,
                  [in |-> in,
                   out |-> CalculateTimes(in.lat, in.lon,
                             IF calls = <<>> THEN in.t
                                ELSE calls[Len(calls)].in.t)])
  /\ UNCHANGED <<jIn, jOut, hIn, hOut, tIn, tOut, sIn, sOut, cfg, env, now, plist, last, mIn,
                mOut>>

\* one more call of CalculateTimes, on any input
CalculateTimesNext ==
  /\ Len(calls) < MaxCalls
  /\ \E in \in CallInputs :
       calls' = Append(calls,
                  [in |-> in, out |-> CalculateTimes(in.lat, in.lon, in.t)])
  /\ UNCHANGED <<jIn, jOut, hIn, hOut, tIn, tOut, sIn, sOut, cfg, env, now, plist, last, mIn,
                mOut>>

SpecCalls == CallsInit /\ [][CalculateTimesNext]_vars

CivilDate(t) == <<Fields(t).year, Fields(t).month, Fields(t).day>>

\* two calls for the same place, on the same civil date of the same zone
SameCivilDate(a, b) ==
  /\ a.in.lat = b.in.lat /\ a.in.lon = b.in.lon
  /\ a.in.t.off = b.in.t.off
  /\ CivilDate(a.in.t) = CivilDate(b.in.t)

\* C18 as stated: two calls on the same civil date (same zone) start from
\* the same Julian Day and return the same sunrise and sunset, whatever the
\* time of day of their inputs; and the civil date the Julian Day is taken
\* from is the date minutesToTime builds the result on.
C18_AsStated ==
  /\ \A i, j \in 1..Len(calls) :
       SameCivilDate(calls[i], calls[j]) =>
         /\ julianDay(calls[i].in.t) = julianDay(calls[j].in.t)
         /\ calls[i].out = calls[j].out
  /\ \A i \in 1..Len(calls) :
       CivilDate(InUTC(calls[i].in.t)) = CivilDate(calls[i].in.t)

(***************************************************************************)
(* One handler applied again and again with the same configuration: the    *)
(* settings file of Cursor, the laf.xml of PyCharm.                        *)
(***************************************************************************)
MaxApplications == 3

\* settings.json as found: written by hand or by the editor (any order of
\* keys, a key repeated, four spaces) or by an earlier run
HandlerTexts ==
  { Text(<<>>, 2),
    Text(<< <<"editor.fontSize", "14">> >>, 4),
    Text(<< <<"workbench.colorTheme", "Default Dark+">>,
            <<"editor.fontSize", "14">> >>, 4),
    Text(<< <<"editor.fontSize", "14">>,
            <<"workbench.colorTheme", "Default Dark+">> >>, 2),
    Text(<< <<"workbench.colorTheme", "Default Light+">>,
            <<"editor.fontSize", "14">>,
            <<"workbench.colorTheme", "Default Dark+">> >>, 2),
    Text(<< <<"editor.fontSize", "14">>,
            <<"sync.revision", "9007199254740993">> >>, 2) }

HandlerFiles ==
  { [kind |-> "object", writable |-> w, text |-> x] :
      w \in BOOLEAN, x \in HandlerTexts }
    \cup { OtherFile(k) : k \in {"missing", "invalid", "null"} }

CustomMap(settings) == [isMap |-> TRUE, settings |-> settings]

DaySettings ==
  [k \in {"workbench.colorTheme", "window.autoDetectColorScheme"} |->
     IF k = "workbench.colorTheme" THEN "GitHub Light" ELSE "false"]

NightSettings == [k \in {"workbench.colorTheme"} |-> "GitHub Dark"]

\* settings that hold the theme key of neither handler
DayDetect == [k \in {"window.autoDetectColorScheme"} |-> "false"]

ClaudeDay == [k \in {"theme"} |-> "light-daltonized"]
ClaudeNight ==
  [k \in {"theme", "editor.fontSize"} |->
     IF k = "theme" THEN "dark-daltonized" ELSE "13"]

\* custom: absent; maps for both modes; a day value that is no map; a day
\* map without the theme key and an empty night map
HandlerCustoms ==
  { NoCustom,
    [k \in {"day", "night"} |->
       IF k = "day" THEN CustomMap(DaySettings) ELSE CustomMap(NightSettings)],
    [k \in {"day"} |-> [isMap |-> FALSE, settings |-> NoSettings]],
    [k \in {"day", "night"} |->
       IF k = "day" THEN CustomMap(DayDetect) ELSE CustomMap(NoSettings)],
    [k \in {"day", "night"} |->
       IF k = "day" THEN CustomMap(ClaudeDay) ELSE CustomMap(ClaudeNight)] }

ClaudeFiles ==
  { [kind |-> "object", writable |-> TRUE,
     text |-> Text(<< <<"theme", "dark">>, <<"editor.fontSize", "14">> >>, 2)],
    OtherFile("missing") }

HandlerEntries ==
  { EntryWith("cursor", TRUE, d, "", c) :
      d \in {"", "Default Dark+"}, c \in HandlerCustoms }
    \cup { EntryWith("claude-code", TRUE, "", "", c) : c \in HandlerCustoms }
    \cup { EntryWith("pycharm", TRUE, d, "", NoCustom) : d \in {"", "Light"} }

HandlerEnvironments ==
  [osascript : {TRUE}, cursorSettings : HandlerFiles,
   claudeSettings : ClaudeFiles,
   jetbrains : JetBrainsDirs, laf : {[dir |-> 0]}]

\* cfg: the plugin's entry and the mode; env: the files
HandlerInit ==
  /\ cfg \in { [done |-> TRUE, entry |-> e, IsLight |-> l] :
                 e \in HandlerEntries, l \in BOOLEAN }
  /\ env \in HandlerEnvironments
  /\ now = 0
  /\ plist = NotCalled
  /\ last = [done |-> TRUE, runs |-> <<>>]
  /\ HourAngleIdle /\ TransitIdle /\ SolarIdle /\ JulianIdle /\ MinutesIdle

\* what is kept of one application: the outcome, the files before and after
Application(before, r) ==
  [result |-> r.result, before |-> before, after |-> r.env]

\* plugin(config) once more
ApplyHandler ==
  /\ Len(last.runs) < MaxApplications
  /\ last' = [last EXCEPT !.runs =
               Append(@, Application(env,
                           CallPlugin(cfg.entry.name,
                                      PluginConfigOf(cfg.entry, cfg.IsLight),
                                      env)))]
  /\ env' = last'.runs[Len(last'.runs)].after
  /\ UNCHANGED <<cfg, now, plist>>
  /\ UNCHANGED solarVars

SpecHandlers == HandlerInit /\ [][ApplyHandler]_vars

\* C12: a handler applied again with the same mode and the same
\* configuration reports the outcome of its first application and leaves
\* the settings file and laf.xml as the first application left them.
C12_Idempotent ==
  \A i \in 2..Len(last.runs) :
    /\ last.runs[i].result = last.runs[1].result
    /\ last.runs[i].after = last.runs[1].after
    /\ last.runs[i].after = last.runs[i].before

\* a first application that rewrote the settings file, and a second
C12_Witness ==
  /\ Len(last.runs) >= 2
  /\ cfg.entry.name = "cursor"
  /\ last.runs[1].result = "ok"
  /\ last.runs[1].before.cursorSettings # last.runs[1].after.cursorSettings
  /\ last.runs[2].result = "ok"

\* the configuration the handler was called with
HandlerConfig == PluginConfigOf(cfg.entry, cfg.IsLight)

\* Cursor takes the theme-only path, and the settings file already holds
\* the mode's theme under workbench.colorTheme
AlreadyInMode(file) ==
  /\ cfg.entry.name = "cursor"
  /\ DOMAIN GetModeSettings(HandlerConfig) = {}
  /\ file.kind = "object"
  /\ "workbench.colorTheme" \in DOMAIN Unmarshal(file.text)
  /\ Unmarshal(file.text)["workbench.colorTheme"] = CursorTheme(HandlerConfig)

\* C14 as stated: when the settings file already holds the target value
\* under the theme key, UpdateJSONTheme returns success and leaves the file
\* byte for byte as it was.
C14_AsStated ==
  \A i \in 1..Len(last.runs) :
    AlreadyInMode(last.runs[i].before.cursorSettings) =>
      /\ last.runs[i].result = "ok"
      /\ last.runs[i].after.cursorSettings = last.runs[i].before.cursorSettings

\* Cursor takes the theme-only path: UpdateJSONTheme is what is applied
ThemePath ==
  cfg.entry.name = "cursor" /\ DOMAIN GetModeSettings(HandlerConfig) = {}

\* the keys of a settings file and the literal each holds
KeysOf(file) == { file.text.members[i][1] : i \in 1..Len(file.text.members) }
LiteralOf(file, k) == LastValue(file.text.members, k, Len(file.text.members))

\* C27 as stated: UpdateJSONTheme changes only the key it is given: on
\* success every other key and value of the settings object is preserved
\* and the key holds the new value; on a file that cannot be read or is not
\* valid JSON it returns an error, leaves an existing file unchanged and
\* does not create a missing one.
C27_AsStated ==
  ThemePath =>
    \A i \in 1..Len(last.runs) :
      /\ last.runs[i].result = "ok" =>
           /\ KeysOf(last.runs[i].after.cursorSettings)
                = KeysOf(last.runs[i].before.cursorSettings)
                    \cup {"workbench.colorTheme"}
           /\ LiteralOf(last.runs[i].after.cursorSettings,
                        "workbench.colorTheme") = CursorTheme(HandlerConfig)
           /\ \A k \in KeysOf(last.runs[i].before.cursorSettings)
                        \ {"workbench.colorTheme"} :
                LiteralOf(last.runs[i].after.cursorSettings, k)
                  = LiteralOf(last.runs[i].before.cursorSettings, k)
      /\ last.runs[i].before.cursorSettings.kind \in {"missing", "invalid"} =>
           /\ last.runs[i].result = "err"
           /\ last.runs[i].after.cursorSettings
                = last.runs[i].before.cursorSettings

\* the settings file of the handler applied
HandlerFile(e) ==
  IF cfg.entry.name = "cursor" THEN e.cursorSettings ELSE e.claudeSettings

\* the key of the requested mode in custom, and whether custom holds a
\* non-empty map under it
RequestedMode == IF cfg.IsLight THEN "day" ELSE "night"

HasModeSettings ==
  /\ RequestedMode \in DOMAIN cfg.entry.custom
  /\ cfg.entry.custom[RequestedMode].isMap
  /\ DOMAIN cfg.entry.custom[RequestedMode].settings # {}

\* the legacy theme key of the handler and the value written under it
LegacyKey == IF cfg.entry.name = "cursor" THEN "workbench.colorTheme" ELSE "theme"

LegacyTheme ==
  IF cfg.entry.name = "claude-code"
    THEN (IF cfg.IsLight THEN "light" ELSE "dark")
  ELSE IF cfg.IsLight
    THEN (IF cfg.entry.day # "" THEN cfg.entry.day ELSE "Default Light+")
  ELSE (IF cfg.entry.night # "" THEN cfg.entry.night ELSE "Default Dark+")

\* what the claim has the handler write
ToWrite ==
  IF HasModeSettings THEN cfg.entry.custom[RequestedMode].settings
  ELSE [k \in {LegacyKey} |-> LegacyTheme]

\* C28: ClaudeCode and Cursor write the custom settings of the requested
\* mode when custom holds a non-empty map under that mode's key: exactly
\* the keys of that map, the legacy theme key among them only if the map
\* holds it.  Otherwise (custom empty, the key absent, its value no map, or
\* the map empty) they write the legacy theme key alone, Cursor with
\* "Default Light+" / "Default Dark+" when day / night is empty.  Every
\* other key of the file keeps its value, so the settings of the other mode
\* are not written.
C28_CustomPrecedence ==
  cfg.entry.name \in {"cursor", "claude-code"} =>
    \A i \in 1..Len(last.runs) :
      last.runs[i].result = "ok" =>
        /\ KeysOf(HandlerFile(last.runs[i].after))
             = KeysOf(HandlerFile(last.runs[i].before)) \cup DOMAIN ToWrite
        /\ \A k \in DOMAIN ToWrite :
             LiteralOf(HandlerFile(last.runs[i].after), k) = ToWrite[k]
        /\ \A k \in KeysOf(HandlerFile(last.runs[i].before)) \ DOMAIN ToWrite :
             LiteralOf(HandlerFile(last.runs[i].after), k)
               = Float64(LiteralOf(HandlerFile(last.runs[i].before), k))

\* ClaudeCode in light mode with {theme: light-daltonized} under day and
\* other settings under night: the theme written is the custom one, and
\* editor.fontSize keeps the value the file had
C28_Witness ==
  /\ cfg.entry.name = "claude-code" /\ cfg.IsLight
  /\ HasModeSettings
  /\ "night" \in DOMAIN cfg.entry.custom
  /\ "editor.fontSize" \in DOMAIN cfg.entry.custom["night"].settings
  /\ Len(last.runs) >= 1
  /\ last.runs[1].result = "ok"
  /\ LiteralOf(last.runs[1].before.claudeSettings, "theme") = "dark"
  /\ LiteralOf(last.runs[1].after.claudeSettings, "theme") = "light-daltonized"
  /\ LiteralOf(last.runs[1].after.claudeSettings, "editor.fontSize") = "14"

(***************************************************************************)
(* The command `schedule` (runSchedule, Generate) on systems where each of *)
(* the calls Generate makes succeeds or fails.                             *)
(***************************************************************************)
Binaries ==
  { [found |-> FALSE, resolves |-> FALSE, path |-> Path(FALSE, <<>>)],
    [found |-> TRUE, resolves |-> FALSE, path |-> Path(FALSE, <<>>)],
    [found |-> TRUE, resolves |-> TRUE,
     path |-> Join(InstallDir, <<"day-night-cycle">>)] }

\* a directory the process can or cannot name
Known(parts)   == [ok |-> TRUE, path |-> Path(TRUE, parts)]
Unknown        == [ok |-> FALSE, path |-> Path(FALSE, <<>>)]

Systems ==
  [binary : Binaries,
   cwd  : {Known(<<"Users", "me", ".config", "day-night-cycle">>), Unknown},
   home : {Known(<<"Users", "me">>), Unknown},
   mkdirLaunchd : BOOLEAN, mkdirLogs : BOOLEAN, create : BOOLEAN,
   execute : BOOLEAN]

\* --config as given on the command line
ConfigPaths == { InstallConfigPath, Path(FALSE, <<"config.yaml">>) }

ScheduleConfigs ==
  { Config(WithOffsets(Location(4606450, -11834300, -7 * 3600), o), <<>>) :
      o \in OffsetPairs }

ScheduleInit ==
  /\ cfg \in ScheduleConfigs
  /\ env \in [sys : Systems, configPath : ConfigPaths]
  /\ now = LocalTime(<<2024, 6, 21>>, 13, cfg.off).sec
  /\ plist = NotCalled
  /\ last = NotCalled
  /\ HourAngleIdle /\ TransitIdle /\ SolarIdle /\ JulianIdle /\ MinutesIdle

\* what is kept of a run of runSchedule: the instants given to Generate and
\* the error it returned
ScheduleRun(times, r) ==
  [done |-> TRUE, command |-> "schedule", sunrise |-> times.sunrise,
   sunset |-> times.sunset, err |-> r.err, state |-> r.state]

\* the plist file after Generate
PlistAfter(old, r) == IF r.state = "untouched" THEN old ELSE r.plist

Schedule ==
  /\ ~last.done
  /\ last' = ScheduleRun(TodaysTimes(cfg, now),
                         runSchedule(env.sys, env.configPath, cfg, now))
  /\ plist' = PlistAfter(plist, runSchedule(env.sys, env.configPath, cfg, now))
  /\ UNCHANGED <<cfg, env, now>>
  /\ UNCHANGED solarVars

SpecSchedule == ScheduleInit /\ [][Schedule]_vars

\* one of the calls the claim names failed: resolving the binary, creating
\* a directory, creating or writing the file
GenerateFailure ==
  \/ ~env.sys.binary.found \/ ~env.sys.binary.resolves
  \/ ~env.sys.mkdirLaunchd \/ ~env.sys.mkdirLogs
  \/ ~env.sys.create \/ ~env.sys.execute

\* C13 as stated: Generate returns an error whenever it fails to resolve
\* the binary, create the directories or write the file; and when it
\* returns none, the descriptor holds the local hour and minute of the
\* sunrise and of the sunset instant it was given, and runs the resolved
\* binary with --config, the absolute path of the configuration, auto.
C13_AsStated ==
  (last.done /\ last.command = "schedule") =>
    /\ GenerateFailure => last.err # ""
    /\ last.err = "" =>
         /\ plist.done
         /\ plist.SunriseHour = Fields(last.sunrise).hour
         /\ plist.SunriseMinute = Fields(last.sunrise).minute
         /\ plist.SunsetHour = Fields(last.sunset).hour
         /\ plist.SunsetMinute = Fields(last.sunset).minute
         /\ Len(plist.ProgramArguments) = 4
         /\ plist.ProgramArguments[1] = env.sys.binary.path
         /\ plist.ProgramArguments[2] = "--config"
         /\ plist.ProgramArguments[3].abs
         /\ plist.ProgramArguments[4] = "auto"

(***************************************************************************)
(* CalculateTimes at Walla Walla, Washington (46.0645, -118.3430) on the   *)
(* summer solstice, in America/Los_Angeles (UTC-7 in June), at every hour  *)
(* and half hour of the day.                                               *)
(***************************************************************************)
GoldenYears == 2023..2026

PacificDaylight == -7 * 3600

GoldenInputs ==
  { [done |-> TRUE, lat |-> 4606450, lon |-> -11834300,
     t |-> [sec |-> LocalTime(<<y, 6, 21>>, h, PacificDaylight).sec + m * 60,
            off |-> PacificDaylight]] :
      y \in GoldenYears, h \in 0..23, m \in {0, 30} }

GoldenInit ==
  /\ sIn \in GoldenInputs
  /\ sOut = NotCalled
  /\ calls = <<>>
  /\ HourAngleIdle /\ TransitIdle /\ AppIdle /\ JulianIdle /\ MinutesIdle

SpecGolden == GoldenInit /\ [][CalculateTimesCall]_vars

\* seconds from the local midnight that starts the day of the input to t
SinceLocalMidnight(t) == (t.sec + t.off) - LocalDay(sIn.t) * SecPerDay

\* C15 as amended: for latitude 46.0645, longitude -118.3430, zone
\* America/Los_Angeles and an input instant at any time of day on June 21,
\* CalculateTimes returns a sunrise within 2 minutes of 05:02 and a sunset
\* within 2 minutes of 20:48 local time, both on June 21.
C15_GoldenValue ==
  sOut.done =>
    /\ Abs(SinceLocalMidnight(sOut.sunrise) - (5 * 3600 + 2 * 60)) <= 120
    /\ Abs(SinceLocalMidnight(sOut.sunset) - (20 * 3600 + 48 * 60)) <= 120

\* a call in the local evening, when the date in UTC is already June 22
C15_Witness ==
  /\ sOut.done
  /\ Fields(sIn.t).hour >= 17
  /\ Fields(InUTC(sIn.t)).day = 22
  /\ Fields(sOut.sunrise).hour = 5 /\ Fields(sOut.sunrise).minute = 2
  /\ Fields(sOut.sunset).hour = 20 /\ Fields(sOut.sunset).minute = 48

\* C15 as stated: sunrise within 2 minutes of 05:00 and sunset within 2
\* minutes of 21:05 local time, for an input at any time of day on June 21.
C15_AsStated ==
  sOut.done =>
    /\ Abs(SinceLocalMidnight(sOut.sunrise) - 5 * 3600) <= 120
    /\ Abs(SinceLocalMidnight(sOut.sunset) - (21 * 3600 + 5 * 60)) <= 120

(***************************************************************************)
(* The refinement of CalculateTimes carried one pass further, at latitudes *)
(* between the polar circles.                                              *)
(***************************************************************************)
RefineLatitudes == {-Deg(60), -Deg(37), 0, Deg(40), Deg(60)}

RefineInputsAt(lon) ==
  { [done |-> TRUE, lat |-> lat, lon |-> lon, t |-> LocalTime(d, h, off)] :
      lat \in RefineLatitudes, d \in SolarDates, h \in SolarHours,
      off \in ZonesAt(lon) }

RefineInit ==
  /\ sIn \in UNION { RefineInputsAt(lon) : lon \in Longitudes }
  /\ sOut = NotCalled
  /\ calls = <<>>
  /\ HourAngleIdle /\ TransitIdle /\ AppIdle /\ JulianIdle /\ MinutesIdle

\* timeOfTransit a third time, at jd + the second pass's minutes / 1440
ThirdPassCall ==
  /\ sOut.done /\ ~tOut.done
  /\ tOut' = ThirdPass(sOut.passes, sIn.lat, sIn.lon)
  /\ UNCHANGED <<jIn, jOut, hIn, hOut, tIn, sIn, sOut, calls, cfg, env, now, plist, last, mIn,
                mOut>>

SpecRefine == RefineInit /\ [][CalculateTimesCall \/ ThirdPassCall]_vars

\* one second, in the unit of minutesUTC
OneSecond == Minute5(1) \div 60

\* C16: at latitudes between the polar circles, timeOfTransit evaluated a
\* third time at the Julian Day of the second pass's result gives a
\* minutesUTC within one second of the second pass's, for sunrise and for
\* sunset.
C16_Converged ==
  tOut.done =>
    /\ Abs(tOut.sunrise3.minutes - sOut.passes.sunrise2.minutes) < OneSecond
    /\ Abs(tOut.sunset3.minutes - sOut.passes.sunset2.minutes) < OneSecond

\* a call whose second pass moved the sunrise by more than ten seconds and
\* whose third pass moves it again, by less than one
C16_Witness ==
  /\ tOut.done
  /\ Abs(sOut.passes.sunrise2.minutes - sOut.passes.sunrise1.minutes)
       > 10 * OneSecond
  /\ tOut.sunrise3.minutes # sOut.passes.sunrise2.minutes
  /\ Abs(tOut.sunrise3.minutes - sOut.passes.sunrise2.minutes) < OneSecond

(***************************************************************************)
(* julianDay on dates from 1583 to 2500, given by their UTC fields (the    *)
(* value of t.UTC() at line 67), and on the calendar day that follows.     *)
(***************************************************************************)
IsLeapYear(y) == (y % 4 = 0 /\ y % 100 # 0) \/ y % 400 = 0

DaysInMonth(y, m) ==
  IF m = 2 THEN (IF IsLeapYear(y) THEN 29 ELSE 28)
  ELSE IF m \in {4, 6, 9, 11} THEN 30 ELSE 31

\* the same time of day on the following day of the Gregorian calendar
FollowingDay(f) ==
  IF f.day < DaysInMonth(f.year, f.month) THEN [f EXCEPT !.day = @ + 1]
  ELSE IF f.month < 12 THEN [f EXCEPT !.day = 1, !.month = @ + 1]
  ELSE [f EXCEPT !.day = 1, !.month = 1, !.year = @ + 1]

\* ends of months and years, leap days, the century years
JulianDates ==
  { <<1583, 1, 1>>, <<1599, 12, 31>>, <<1600, 2, 28>>, <<1600, 2, 29>>,
    <<1700, 2, 28>>, <<1800, 2, 28>>, <<1899, 12, 31>>, <<1900, 2, 28>>,
    <<1900, 3, 1>>, <<1970, 1, 1>>, <<1999, 12, 31>>, <<2000, 1, 1>>,
    <<2000, 2, 28>>, <<2000, 2, 29>>, <<2000, 12, 31>>, <<2023, 2, 28>>,
    <<2024, 1, 31>>, <<2024, 2, 28>>, <<2024, 2, 29>>, <<2024, 4, 30>>,
    <<2024, 6, 21>>, <<2024, 12, 31>>, <<2038, 1, 19>>, <<2100, 2, 28>>,
    <<2100, 3, 1>>, <<2100, 12, 31>>, <<2400, 2, 29>>, <<2500, 12, 30>> }

JulianClocks == { <<0, 0, 0>>, <<6, 30, 15>>, <<12, 0, 0>>, <<23, 59, 59>> }

JulianInit ==
  /\ jIn \in { [done |-> TRUE, year |-> d[1], month |-> d[2], day |-> d[3],
                hour |-> c[1], minute |-> c[2], second |-> c[3]] :
                d \in JulianDates, c \in JulianClocks }
  /\ jOut = NotCalled
  /\ HourAngleIdle /\ TransitIdle /\ SolarIdle /\ AppIdle /\ MinutesIdle

\* the days either side of J2000.0 within which a Julian Century in units
\* of 1e-9 fits the integers of the model
MaxCenturyDays == 40000

\* julianDayToJulianCentury(jd) where the model can hold it
CenturyOf(jd) ==
  IF Abs(jd.int - 2451545) <= MaxCenturyDays
    THEN [held |-> TRUE, value |-> julianDayToJulianCentury(jd)]
    ELSE [held |-> FALSE, value |-> 0]

\* julianDay of the date and of the following day, and the Julian Century
\* of the first
JulianDayCall ==
  /\ jIn.done /\ ~jOut.done
  /\ jOut' = [done |-> TRUE,
              jd   |-> JulianDayOfFields(jIn),
              next |-> JulianDayOfFields(FollowingDay(jIn)),
              jc   |-> CenturyOf(JulianDayOfFields(jIn))]
  /\ UNCHANGED <<jIn, hIn, hOut, tIn, tOut, sIn, sOut, calls, cfg, env, now,
                 plist, last, mIn,
                mOut>>

SpecJulian == JulianInit /\ [][JulianDayCall]_vars

\* the Julian Day Number of a Gregorian date (the Julian Day at its noon),
\* by the integer formula of Fliegel and Van Flandern
DayNumber(y, m, d) ==
  TruncDiv(1461 * (y + 4800 + TruncDiv(m - 14, 12)), 4)
    + TruncDiv(367 * (m - 2 - 12 * TruncDiv(m - 14, 12)), 12)
    - TruncDiv(3 * TruncDiv(y + 4900 + TruncDiv(m - 14, 12), 100), 4)
    + d - 32075

\* the time of day of jIn, in milliseconds
ClockMs == ((jIn.hour * 60 + jIn.minute) * 60 + jIn.second) * 1000

\* C20: for dates from 1583 to 2500 julianDay is the standard conversion
\* from the Gregorian calendar: the Julian Day Number of the date less one
\* half, plus (h*3600 + m*60 + s)/86400; 2000-01-01 12:00:00 UTC gives
\* exactly 2451545.0, which is Julian Century 0; and the following calendar
\* day at the same time of day gives exactly 1 more, across ends of months
\* and years, leap days and the century years that are not leap years.
C20_JulianDay ==
  jOut.done =>
    /\ jOut.jd = NormJD(DayNumber(jIn.year, jIn.month, jIn.day) - 1,
                        ClockMs + (MsPerDay \div 2))
    /\ jOut.jd.ms = (ClockMs + (MsPerDay \div 2)) % MsPerDay
    /\ jOut.next = [int |-> jOut.jd.int + 1, ms |-> jOut.jd.ms]
    /\ (<<jIn.year, jIn.month, jIn.day>> = <<2000, 1, 1>> /\ jIn.hour = 12) =>
         (jOut.jd = [int |-> 2451545, ms |-> 0]
            /\ jOut.jc = [held |-> TRUE, value |-> 0])

\* the last day of February of 2100, which is not a leap year
C20_Witness ==
  /\ jOut.done
  /\ <<jIn.year, jIn.month, jIn.day>> = <<2100, 2, 28>>
  /\ FollowingDay(jIn).month = 3
  /\ jOut.next.int = jOut.jd.int + 1

(***************************************************************************)
(* main() on every command, a range of configuration files (missing,       *)
(* unparsable, with offsets that parse and that do not, with a time zone   *)
(* that loads and one that does not), two systems and two environments.    *)
(***************************************************************************)
MainArgs ==
  { <<>>, <<"auto">>, <<"light">>, <<"dark">>, <<"status">>, <<"next">>,
    <<"schedule">>, <<"version">>, <<"toggle">> }

\* dayOffset / nightOffset strings time.ParseDuration accepts ...
GoodOffsets == { <<>>, <<"3", "0", "m">>, <<"-", "1", "5", "m">> }
\* ... and rejects: no unit, an unknown unit
BadOffsets == { <<"3", "0">>, <<"1", "x">> }

MainPluginLists ==
  { <<Entry("iterm2", TRUE, "Solarized Light", "Solarized Dark"),
      Entry("cursor", TRUE, "", "")>>,
    <<Entry("pycharm", TRUE, "", "")>> }

ConfigFile(kind, location, tzKnown, day, night, plugins) ==
  [done |-> TRUE, kind |-> kind, lat |-> location.lat, lon |-> location.lon,
   off |-> location.off, tzKnown |-> tzKnown, DayOffset |-> day,
   NightOffset |-> night, plugins |-> plugins]

MainFiles ==
  { ConfigFile(kind, DefaultLocation, TRUE, <<>>, <<>>, <<>>) :
      kind \in {"missing", "unparsable"} }
    \cup { ConfigFile("yaml", DefaultLocation, tz, d, n, p) :
             tz \in BOOLEAN, d \in GoodOffsets \cup BadOffsets,
             n \in {<<>>, <<"-", "1", "5", "m">>, <<"1", "x">>},
             p \in MainPluginLists }

MainSystems == { InstallSystem, [InstallSystem EXCEPT !.create = FALSE] }

MainEnvironments ==
  { AutoEnvironment,
    [AutoEnvironment EXCEPT
       !.jetbrains = [exists |-> TRUE, entries |-> <<Dir(Toolbox)>>]] }

MainInit ==
  /\ cfg \in MainFiles
  /\ env \in [files : MainEnvironments, sys : MainSystems,
              configPath : {InstallConfigPath}]
  /\ now \in { LocalTime(<<2024, 6, 21>>, h, DefaultLocation.off).sec :
                 h \in {3, 12} }
  /\ plist = NotCalled
  /\ last = NotCalled
  /\ HourAngleIdle /\ TransitIdle /\ SolarIdle /\ JulianIdle /\ MinutesIdle

\* what is kept of a process
MainRun(args, exited) == [done |-> TRUE, args |-> args] @@ exited

\* the plist file after the process
MainPlist(generated) ==
  IF generated.state = "written" THEN generated.plist ELSE plist

RunMain ==
  /\ ~last.done
  /\ \E args \in MainArgs :
       last' = MainRun(args, main(args, cfg, env.sys, env.configPath,
                                  env.files, now))
  /\ env' = [env EXCEPT !.files = last'.env]
  /\ plist' = MainPlist(last'.generated)
  /\ UNCHANGED <<cfg, now>>
  /\ UNCHANGED solarVars

SpecMain == MainInit /\ [][RunMain]_vars

\* the commands that load the configuration, and those that go on to load
\* the time zone
LoadingCommands == {"auto", "light", "dark", "status", "next", "schedule"}
LocatedCommands == {"auto", "status", "next", "schedule"}

\* the start-up failures of a process with arguments args on the file cfg
StartupFailure(args) ==
  \/ args = <<>>
  \/ args # <<>> /\ args[1] \notin LoadingCommands \cup {"version"}
  \/ /\ args # <<>> /\ args[1] \in LoadingCommands
     /\ \/ cfg.kind # "yaml"
        \/ cfg.DayOffset \in BadOffsets
        \/ cfg.NightOffset \in BadOffsets
  \/ args # <<>> /\ args[1] \in LocatedCommands /\ ~cfg.tzKnown

\* C22: a process that meets a start-up failure (no command, an unknown
\* command, a configuration file that a loading command cannot read or
\* parse, an offset that does not parse, or for auto, status, next and
\* schedule a time zone that does not load) exits with status 1, has called
\* no handler, called Generate not at all, and leaves the environment and
\* the plist as they were.
C22_StartupFailure ==
  [][(~last.done /\ last'.done /\ StartupFailure(last'.args)) =>
       /\ last'.exit = 1
       /\ last'.handlers = <<>>
       /\ last'.generated = NotGenerated
       /\ ~last'.report.done
       /\ env' = env
       /\ plist' = plist]_vars

\* `auto` on a file whose dayOffset does not parse, its plugins enabled
C22_Witness ==
  /\ last.done /\ last.args = <<"auto">>
  /\ cfg.kind = "yaml" /\ cfg.tzKnown
  /\ cfg.DayOffset = <<"3", "0">>
  /\ Len(cfg.plugins) = 2
  /\ last.exit = 1 /\ last.err = "invalid location offsets"
  /\ last.handlers = <<>>

\* the durations the offset strings of the harness denote, in milliseconds
OffsetMs(str) ==
  IF str = <<"3", "0", "m">> THEN 30 * 60 * 1000
  ELSE IF str = <<"-", "1", "5", "m">> THEN -(15 * 60 * 1000)
  ELSE 0

\* the instants CalculateTimes gives for the run, before any offset
UnshiftedTimes == CalculateTimes(cfg.lat, cfg.lon, [sec |-> now, off |-> cfg.off])

\* C29: ApplyOffsets moves the sunrise by the day offset alone and the
\* sunset by the night offset alone (so with both unset the instants are the
\* computed ones, and a change of one offset leaves the other instant as it
\* was); Load returns either an error with the empty Config, or a Config
\* whose two durations are those its dayOffset and nightOffset strings
\* denote, zero for the empty string.
C29_Offsets ==
  /\ Load(cfg).err # "" => Load(cfg).config = EmptyConfig
  /\ Load(cfg).err = "" =>
       /\ Load(cfg).config.dayOffset * 1000 = OffsetMs(cfg.DayOffset)
       /\ Load(cfg).config.nightOffset * 1000 = OffsetMs(cfg.NightOffset)
  /\ (last.done /\ last.report.done /\ last.args = <<"status">>) =>
       /\ last.report.sunrise.sec
            = UnshiftedTimes.sunrise.sec + OffsetMs(cfg.DayOffset) \div 1000
       /\ last.report.sunset.sec
            = UnshiftedTimes.sunset.sec + OffsetMs(cfg.NightOffset) \div 1000

\* `status` with dayOffset 30m and nightOffset -15m: the sunrise reported is
\* half an hour after the computed one, the sunset a quarter before
C29_Witness ==
  /\ last.done /\ last.args = <<"status">> /\ last.report.done
  /\ cfg.DayOffset = <<"3", "0", "m">>
  /\ cfg.NightOffset = <<"-", "1", "5", "m">>
  /\ last.report.sunrise.sec = UnshiftedTimes.sunrise.sec + 1800
  /\ last.report.sunset.sec = UnshiftedTimes.sunset.sec - 900

(***************************************************************************)
(* The commands `status` and `next` (runStatus, runNext, nextTransition)   *)
(* at instants around the day's sunrise and sunset.                        *)
(***************************************************************************)
\* 70.5 N 68.6 W (Baffin Island) on the fixed zone UTC-5, where the solar
\* midnight falls before the civil one
HighLatitude == Location(7050000, -6860000, -5 * 3600)

StatusConfigs ==
  AutoConfigs
    \cup { Config(WithOffsets(HighLatitude, o), <<>>) : o \in OffsetPairs }

StatusInit ==
  /\ cfg \in StatusConfigs
  /\ env = AutoEnvironment
  /\ now \in UNION { AutoClocks(cfg, d) : d \in AutoDates }
  /\ plist = NotCalled
  /\ last = NotCalled
  /\ HourAngleIdle /\ TransitIdle /\ SolarIdle /\ JulianIdle /\ MinutesIdle

RunStatus ==
  /\ ~last.done
  /\ last' = runStatus(cfg, now)
  /\ UNCHANGED <<cfg, env, now, plist>>
  /\ UNCHANGED solarVars

RunNext ==
  /\ ~last.done
  /\ last' = runNext(cfg, now)
  /\ UNCHANGED <<cfg, env, now, plist>>
  /\ UNCHANGED solarVars

SpecStatus == StatusInit /\ [][RunStatus \/ RunNext]_vars

\* C23 as stated: in every status report the mode is "light" exactly when
\* the next transition is a sunset and "dark" exactly when it is a sunrise,
\* the instants of sunrise and sunset themselves included.
C23_AsStated ==
  (last.done /\ last.command = "status") =>
    /\ last.mode = "light" <=> last.kind = "sunset"
    /\ last.mode = "dark" <=> last.kind = "sunrise"

\* C24 as stated: the instant nextTransition returns is strictly later than
\* now: today's sunrise before sunrise, today's sunset between sunrise and
\* sunset, and from sunset on the sunrise computed for now + 24h with the
\* day offset applied; the kind is "sunset" only in the second case.
C24_AsStated ==
  (last.done /\ last.command = "next") =>
    /\ last.next.sec > last.now.sec
    /\ last.now.sec < last.sunrise.sec =>
         last.next = last.sunrise /\ last.kind = "sunrise"
    /\ (last.now.sec >= last.sunrise.sec /\ last.now.sec < last.sunset.sec) =>
         last.next = last.sunset /\ last.kind = "sunset"
    /\ (last.now.sec >= last.sunrise.sec /\ last.now.sec >= last.sunset.sec) =>
         last.next = TomorrowsSunrise(cfg, last.now) /\ last.kind = "sunrise"

(***************************************************************************)
(* minutesToTime on the float64 values around whole seconds: for a second  *)
(* s of the day (or of the next), the float64 nearest to s/60 minutes and  *)
(* its neighbours.                                                         *)
(***************************************************************************)
MinuteSeconds ==
  { 0, 1, 59, 346, 737, 3599, 3600, 35222, 43200, 86399, 86400, 86401,
    129599 }

\* how many float64 values away from the nearest one
Ulps == -2..2

\* the float64 nearest to s/60, in units of 2^-52
NearestMinutes(s) ==
  Round53(DivSmall(ShiftLeft(Big(s), 52), 60).q,
          DivSmall(ShiftLeft(Big(s), 52), 60).rem # 0)

\* the bits of n below its 53 significant ones
UlpBits(n) == IF BitLen(n) > 53 THEN BitLen(n) - 53 ELSE 0

\* the float64 k places from n
Neighbour(n, k) ==
  ShiftLeft(AddFrom(ShiftRight(n, UlpBits(n), FALSE).n, 1, k), UlpBits(n))

MinutesInputs ==
  { Neighbour(NearestMinutes(s), k) :
      s \in MinuteSeconds \ {0}, k \in Ulps }
    \cup { Neighbour(NearestMinutes(0), k) : k \in 0..2 }

MinutesDates ==
  { LocalTime(<<2024, 6, 21>>, 9, -7 * 3600),
    LocalTime(<<2024, 12, 31>>, 21, 9 * 3600) }

MinutesInit ==
  /\ mIn \in { [done |-> TRUE, date |-> d, minutes |-> n] :
                 d \in MinutesDates, n \in MinutesInputs }
  /\ mOut = NotCalled
  /\ calls = <<>>
  /\ JulianIdle /\ HourAngleIdle /\ TransitIdle /\ AppIdle
  /\ sIn = NotCalled /\ sOut = NotCalled

MinutesToTimeCall ==
  /\ mIn.done /\ ~mOut.done
  /\ mOut' = [done |-> TRUE, hms |-> MinutesHMS64(mIn.minutes),
              ret |-> minutesToTime64(mIn.date, mIn.minutes)]
  /\ UNCHANGED <<jIn, jOut, hIn, hOut, tIn, tOut, sIn, sOut, mIn, calls, cfg,
                 env, now, plist, last>>

SpecMinutes == MinutesInit /\ [][MinutesToTimeCall]_vars

\* floor(minutes * 60), the product exact
FloorSeconds(n) == IntOf(MulSmall(n, 60))

\* 00:00:00 UTC of the year, month and day of date, in Unix seconds
MidnightUTC(date) ==
  DateUTC(Fields(date).year, Fields(date).month, Fields(date).day, 0, 0, 0).sec

\* C30 as stated: for every minutes >= 0, minutesToTime(date, minutes) is
\* the instant exactly floor(minutes * 60) seconds after 00:00:00 UTC of
\* date's year, month and day: hours*3600 + mins*60 + secs is
\* floor(minutes * 60) with mins and secs in 0..59, and a value of 1440 or
\* more rolls into the following UTC day.
C30_AsStated ==
  mOut.done =>
    /\ mOut.hms.mins \in 0..59
    /\ mOut.hms.secs \in 0..59
    /\ mOut.hms.hours * 3600 + mOut.hms.mins * 60 + mOut.hms.secs
         = FloorSeconds(mIn.minutes)
    /\ mOut.ret.sec = MidnightUTC(mIn.date) + FloorSeconds(mIn.minutes)
    /\ mOut.ret.off = mIn.date.off

=============================================================================
